---- MODULE Spec2Model ----
(***************************************************************************)
(* Lead research pipeline (graphs/graph_builder_2.py), its agents, the     *)
(* search client (utils/google_scraper.py), the result parser              *)
(* (utils/parser.py) and the HTTP front end (api/api_main.py).             *)
(*                                                                         *)
(* Text is modelled character by character: a Python str is a sequence of  *)
(* one-character strings.  The bullet character U+2022 is the element      *)
(* Bullet.  Python values that come out of json.loads are tagged records:  *)
(*   JStr(chars), JArr(sequence of values), JObj(sequence of <<key,value>>)*)
(***************************************************************************)
EXTENDS Integers, Sequences, FiniteSets, TLC

VARIABLES
    \* ---- InputEnhancerParser.parse, run as a function of its own ----
    content,        \* the raw text handed to parse
    ret,            \* what parse returned
    ppc,            \* "idle" | "called" | "returned"
    \* ---- run_cse_scraper, run as a function of its own ----
    queries,        \* the batch of queries
    qi,             \* index of the next query of the for loop
    all_results,    \* the mapping being built
    calls,          \* backend calls made so far: <<query, outcome>>
    scraped,        \* the returned mapping
    spc,            \* "idle" | "loop" | "returned" | "raised"
    \* ---- one invocation of the pipeline ----
    entry,          \* "api": POST /run-lead-pipeline; "direct": main(input_data)
    request,        \* the caller's product fields
    pc,             \* where the invocation stands
    state,          \* the channel values of the graph: what a node is handed
    after_enhance,  \* the state as node_input_enhancer returned it
    stages,         \* the stages entered so far, in order
    llm_calls,      \* the calls of llm.invoke so far: "enhance" | "rank"
    llm_raised,     \* the calls of llm.invoke that raised
    llm_answers,    \* what each call of llm.invoke did: [raised, content]
    search_log,     \* the backend calls so far: <<query, outcome>>
    files,          \* the diagnostic files written so far
    result,         \* what main returned
    audit,          \* rows inserted into the evaluation_runs table
    response,       \* what the HTTP caller got
    \* ---- clean_bing_url, run as a function of its own ----
    given_url,      \* the URL handed to clean_bing_url
    clean_once,     \* clean_bing_url(given_url)
    clean_twice,    \* clean_bing_url(clean_bing_url(given_url))
    cpc,            \* "idle" | "called" | "cleaned" | "recleaned"
    \* ---- run_scraper, run as a function of its own ----
    batch,          \* the queries handed to run_scraper
    per_query,      \* its per_query argument
    bi,             \* index of the query bing_search is called for next
    found_log,      \* what bing_search returned, query by query
    all_urls,       \* the list the found URLs are gathered in
    unique_urls,    \* list(dict.fromkeys(all_urls))
    ui,             \* index of the URL scrape_page is called for next
    fetch_log,      \* the calls of scrape_page so far: <<url, outcome>>
    page_results,   \* the results list
    rs_return,      \* what run_scraper returned
    rpc,            \* "idle" | "search" | "launch" | "fetch" | "save" | "returned" | "raised"
    \* ---- the evaluation update endpoints ----
    rows,           \* the evaluation_runs table: id -> row
    rows_before,    \* the table as it was when the last request came in
    payload,        \* the last request: endpoint and body
    store,          \* what the store did on the last request: "ok" | "raise"
    reply,          \* what the last request was answered with
    served,         \* number of requests answered
    \* ---- two invocations of main in one process ----
    inv,            \* the invocations: input, external responses, pc, channel values, result
    savers,         \* the MemorySaver objects: checkpoint under the thread id
    disk,           \* the files under data/: name -> content and writer
    reads           \* reads of a shared object: <<reader, object, writer>>

parseVars == <<content, ret, ppc>>
scraperVars == <<queries, qi, all_results, calls, scraped, spc>>
pipeVars == <<entry, request, pc, state, after_enhance, stages, llm_calls,
              llm_raised, llm_answers, search_log, files, result, audit, response>>
cleanVars == <<given_url, clean_once, clean_twice, cpc>>
fetchVars == <<batch, per_query, bi, found_log, all_urls, unique_urls, ui,
               fetch_log, page_results, rs_return, rpc>>
evalVars == <<rows, rows_before, payload, store, reply, served>>
pairVars == <<inv, savers, disk, reads>>
serviceVars == <<evalVars, pairVars>>
pageVars == <<cleanVars, fetchVars, serviceVars>>
vars == <<parseVars, scraperVars, pipeVars, pageVars>>

\* A Python None and "no value yet".
PyNone == "<None>"
NoValue == "<no value>"

(***************************************************************************)
(* Characters and text                                                     *)
(***************************************************************************)
Bullet == "U+2022"
Quote == "\""
NewLine == "\n"

\* "search_queries" and "business_domains" as Python strings.
KeySQ == <<"s","e","a","r","c","h","_","q","u","e","r","i","e","s">>
KeyBD == <<"b","u","s","i","n","e","s","s","_","d","o","m","a","i","n","s">>

JStr(chars) == [t |-> "str", v |-> chars]
JArr(elems) == [t |-> "arr", v |-> elems]
JObj(pairs) == [t |-> "obj", v |-> pairs]

RECURSIVE Concat(_)
Concat(ss) == IF ss = <<>> THEN <<>> ELSE Head(ss) \o Concat(Tail(ss))

Min(S) == CHOOSE x \in S : \A y \in S : x <= y
Max(S) == CHOOSE x \in S : \A y \in S : x >= y

\* str.strip(chars): drop every leading and trailing character that is in cs.
StripChars(s, cs) ==
    LET keep == {k \in 1..Len(s) : s[k] \notin cs} IN
    IF keep = {} THEN <<>> ELSE SubSeq(s, Min(keep), Max(keep))

\* The whitespace of the modelled alphabet.
WhiteSpace == {" ", NewLine}

\* str.strip() with no argument.
Strip(s) == StripChars(s, WhiteSpace)

\* str.splitlines(): the text between line breaks; a trailing break adds no line.
splitlines(s) ==
    LET breaks == {k \in 1..Len(s) : s[k] = NewLine}
        \* the n-th line break; the end of the text closes a last unbroken line
        stop(n) == IF n > Cardinality(breaks) THEN Len(s) + 1
                   ELSE CHOOSE k \in breaks : Cardinality({j \in breaks : j < k}) = n - 1
        count == Cardinality(breaks)
                 + (IF s # <<>> /\ s[Len(s)] # NewLine THEN 1 ELSE 0)
    IN [n \in 1..count |->
            SubSeq(s, (IF n = 1 THEN 1 ELSE stop(n - 1) + 1), stop(n) - 1)]

(***************************************************************************)
(* json.loads on the modelled alphabet: objects, arrays and strings        *)
(* (no escapes; a raw line break inside a string is rejected, as in strict *)
(* mode).  The texts of this model hold letters and digits inside strings  *)
(* only and never spell true, false, null, NaN or Infinity outside one, so *)
(* any other character where a value must start is an error.               *)
(***************************************************************************)
JFail == [ok |-> FALSE, val |-> NoValue, pos |-> 0]

\* The first index from i on that holds no whitespace (Len(s) + 1 when none).
SkipWs(s, i) ==
    LET rest == {k \in i..Len(s) : s[k] \notin WhiteSpace} IN
    IF rest = {} THEN (IF i > Len(s) THEN i ELSE Len(s) + 1) ELSE Min(rest)

\* Index of the quote closing a string whose text starts at i, 0 when there is none.
ScanString(s, i) ==
    LET ends == {k \in i..Len(s) : s[k] \in {Quote, NewLine}} IN
    IF ends = {} THEN 0
    ELSE IF s[Min(ends)] = Quote THEN Min(ends) ELSE 0

\* s[i] is an opening quote.
ParseString(s, i) ==
    LET j == ScanString(s, i + 1) IN
    IF j = 0 THEN JFail
    ELSE [ok |-> TRUE, val |-> JStr(SubSeq(s, i + 1, j - 1)), pos |-> j + 1]

\* d[key] = value on a dict held as a sequence of <<key, value>> pairs: a key
\* already there keeps its place and takes the new value.
dict_set(pairs, key, value) ==
    IF \E n \in 1..Len(pairs) : pairs[n][1] = key
    THEN [n \in 1..Len(pairs) |->
             IF pairs[n][1] = key THEN <<key, value>> ELSE pairs[n]]
    ELSE Append(pairs, <<key, value>>)

RECURSIVE ParseValue(_, _)
RECURSIVE ParseMembers(_, _, _)
RECURSIVE ParseElements(_, _, _)

\* i is where a key must start.
ParseMembers(s, i, acc) ==
    IF i > Len(s) \/ s[i] # Quote THEN JFail
    ELSE LET k == ParseString(s, i) IN
      IF ~k.ok THEN JFail
      ELSE LET c == SkipWs(s, k.pos) IN
        IF c > Len(s) \/ s[c] # ":" THEN JFail
        ELSE LET v == ParseValue(s, SkipWs(s, c + 1)) IN
          IF ~v.ok THEN JFail
          ELSE LET e == SkipWs(s, v.pos)
                   acc2 == dict_set(acc, k.val.v, v.val) IN
            IF e > Len(s) THEN JFail
            ELSE IF s[e] = "}" THEN [ok |-> TRUE, val |-> JObj(acc2), pos |-> e + 1]
            ELSE IF s[e] = "," THEN ParseMembers(s, SkipWs(s, e + 1), acc2)
            ELSE JFail

\* i is where an element must start.
ParseElements(s, i, acc) ==
    LET v == ParseValue(s, i) IN
    IF ~v.ok THEN JFail
    ELSE LET e == SkipWs(s, v.pos)
             acc2 == Append(acc, v.val) IN
      IF e > Len(s) THEN JFail
      ELSE IF s[e] = "]" THEN [ok |-> TRUE, val |-> JArr(acc2), pos |-> e + 1]
      ELSE IF s[e] = "," THEN ParseElements(s, SkipWs(s, e + 1), acc2)
      ELSE JFail

ParseValue(s, i) ==
    IF i > Len(s) THEN JFail
    ELSE IF s[i] = Quote THEN ParseString(s, i)
    ELSE IF s[i] = "{" THEN
        LET j == SkipWs(s, i + 1) IN
        IF j <= Len(s) /\ s[j] = "}"
        THEN [ok |-> TRUE, val |-> JObj(<<>>), pos |-> j + 1]
        ELSE ParseMembers(s, j, <<>>)
    ELSE IF s[i] = "[" THEN
        LET j == SkipWs(s, i + 1) IN
        IF j <= Len(s) /\ s[j] = "]"
        THEN [ok |-> TRUE, val |-> JArr(<<>>), pos |-> j + 1]
        ELSE ParseElements(s, j, <<>>)
    ELSE JFail

\* json.loads(s): [ok, val]; ok = FALSE stands for the exception it raises.
json_loads(s) ==
    LET r == ParseValue(s, SkipWs(s, 1)) IN
    IF r.ok /\ SkipWs(s, r.pos) = Len(s) + 1
    THEN [ok |-> TRUE, val |-> r.val]
    ELSE [ok |-> FALSE, val |-> NoValue]

\* dict.get(key, default) on a parsed object.
RECURSIVE GetFrom(_, _, _, _)
GetFrom(pairs, n, key, default) ==
    IF n = 0 THEN default
    ELSE IF pairs[n][1] = key THEN pairs[n][2]
    ELSE GetFrom(pairs, n - 1, key, default)

dict_get(obj, key, default) == GetFrom(obj.v, Len(obj.v), key, default)

\* Python truth value of a parsed value.
Truthy(val) == Len(val.v) > 0

(***************************************************************************)
(* InputEnhancerParser.parse                                               *)
(***************************************************************************)
\* Index of the first / last c in s, 0 when there is none.
FirstIndex(s, c) ==
    LET at == {k \in 1..Len(s) : s[k] = c} IN IF at = {} THEN 0 ELSE Min(at)

LastIndex(s, c) ==
    LET at == {k \in 1..Len(s) : s[k] = c} IN IF at = {} THEN 0 ELSE Max(at)

\* re.search(r"\{[\s\S]*\}", content): the star is greedy, so the match runs
\* from the first "{" to the last "}" of the text.
re_search(text) ==
    LET i == FirstIndex(text, "{")
        j == LastIndex(text, "}") IN
    IF i > 0 /\ j > i THEN [found |-> TRUE, group |-> SubSeq(text, i, j)]
    ELSE [found |-> FALSE, group |-> <<>>]

BulletMarkers == {Bullet, "-", "*"}

\* The argument of line.strip("U+2022-* ").
BulletStripSet == {Bullet, "-", "*", " "}

\* One query of the fallback: line.strip("U+2022-* ").strip()
bullet_query(line) == JStr(Strip(StripChars(line, BulletStripSet)))

\* The for loop of the fallback over content.splitlines().
RECURSIVE bullet_loop(_, _, _)
bullet_loop(lines, n, acc) ==
    IF n > Len(lines) THEN acc
    ELSE LET line == Strip(lines[n]) IN
      IF line = <<>> THEN bullet_loop(lines, n + 1, acc)
      ELSE IF Head(line) \in BulletMarkers
           THEN bullet_loop(lines, n + 1, Append(acc, bullet_query(line)))
           ELSE bullet_loop(lines, n + 1, acc)

\* Step 1 of parse: the JSON block, or "nothing" when there is no match or
\* json.loads raised.
extract_json(text) ==
    LET match == re_search(text) IN
    IF match.found THEN json_loads(match.group)
    ELSE [ok |-> FALSE, val |-> NoValue]

\* parse without the try/except around json.loads: a malformed block leaves parse
\* as an exception.
parse_propagates_json_error(text) ==
    LET match == re_search(text) IN
    IF match.found /\ ~json_loads(match.group).ok
    THEN [raised |-> "JSONDecodeError"]
    ELSE LET first == extract_json(text)
             parsed_output ==
                 IF first.ok /\ Truthy(first.val) THEN first.val
                 ELSE JObj(<< <<KeySQ, JArr(bullet_loop(splitlines(text), 1, <<>>))>>,
                              <<KeyBD, JArr(<<>>)>> >>)
         IN [search_queries |-> dict_get(parsed_output, KeySQ, JArr(<<>>)),
             business_domains |-> dict_get(parsed_output, KeyBD, JArr(<<>>)),
             messages |-> <<text>>]

InputEnhancerParser_parse(text) ==
    LET first == extract_json(text)
        parsed_output ==
            IF first.ok /\ Truthy(first.val) THEN first.val
            ELSE JObj(<< <<KeySQ, JArr(bullet_loop(splitlines(text), 1, <<>>))>>,
                         <<KeyBD, JArr(<<>>)>> >>)
    IN [search_queries |-> dict_get(parsed_output, KeySQ, JArr(<<>>)),
        business_domains |-> dict_get(parsed_output, KeyBD, JArr(<<>>)),
        messages |-> <<text>>]

(***************************************************************************)
(* Texts the generation service may answer with                            *)
(***************************************************************************)
Quoted(chars) == <<Quote>> \o chars \o <<Quote>>

\* ["x", "y", ...] for a sequence of Python strings
RECURSIVE ListItemsText(_)
ListItemsText(strs) ==
    IF strs = <<>> THEN <<>>
    ELSE IF Len(strs) = 1 THEN Quoted(strs[1])
    ELSE Quoted(strs[1]) \o <<",", " ">> \o ListItemsText(Tail(strs))

ListText(strs) == <<"[">> \o ListItemsText(strs) \o <<"]">>

\* {"search_queries": [...], "business_domains": [...]}
EnhanceJson(qs, ds) ==
    <<"{">> \o Quoted(KeySQ) \o <<":", " ">> \o ListText(qs) \o <<",", " ">>
            \o Quoted(KeyBD) \o <<":", " ">> \o ListText(ds) \o <<"}">>

Obj_Full == EnhanceJson(<< <<"a">> >>, << <<"b">> >>)
Obj_DomainsOnly == <<"{">> \o Quoted(KeyBD) \o <<":">> \o ListText(<< <<"b">> >>) \o <<"}">>
Obj_Empty == <<"{", "}">>
Line_Dash == <<"-", " ", "a">>
Line_Star == <<"*", "b", " ", "-">>
Line_Bullet == <<Bullet, "c">>
Line_Prose == <<"x">>

ParsePieces ==
    {Obj_Full, Obj_DomainsOnly, Obj_Empty, Line_Dash, Line_Star, Line_Bullet,
     Line_Prose, <<NewLine>>, <<"{">>, <<"}">>}

\* Longest raw text, in pieces.
MaxPieces == 3

ParseTexts ==
    {Concat(ps) : ps \in UNION {[1..n -> ParsePieces] : n \in 0..MaxPieces}}

(***************************************************************************)
(* parse as a function of its own                                          *)
(***************************************************************************)
\* No answer to the HTTP caller yet.  An empty dict stands for "no state yet":
\* every state of an invocation has at least one key.
NoResponse == [status |-> "none", result |-> <<>>]

ParseIdle == content = <<>> /\ ret = NoValue /\ ppc = "idle"
ScraperIdle ==
    /\ queries = <<>> /\ qi = 0 /\ all_results = <<>> /\ calls = <<>>
    /\ scraped = NoValue /\ spc = "idle"

PipeIdle ==
    /\ entry = "none" /\ request = <<>> /\ pc = "idle" /\ state = <<>>
    /\ after_enhance = <<>> /\ stages = <<>> /\ llm_calls = <<>>
    /\ llm_raised = <<>> /\ llm_answers = <<>> /\ search_log = <<>>
    /\ files = {} /\ result = <<>> /\ audit = <<>> /\ response = NoResponse

CleanIdle == given_url = <<>> /\ clean_once = <<>> /\ clean_twice = <<>> /\ cpc = "idle"
FetchIdle ==
    /\ batch = <<>> /\ per_query = 0 /\ bi = 0 /\ found_log = <<>>
    /\ all_urls = <<>> /\ unique_urls = <<>> /\ ui = 0 /\ fetch_log = <<>>
    /\ page_results = <<>> /\ rs_return = <<>> /\ rpc = "idle"
\* No answer of an update endpoint yet.
NoReply == [status_code |-> 0, body |-> <<>>]
EvalIdle ==
    /\ rows = <<>> /\ rows_before = <<>> /\ payload = <<>> /\ store = "none"
    /\ reply = NoReply /\ served = 0
PairIdle == inv = <<>> /\ savers = <<>> /\ disk = <<>> /\ reads = {}
ServiceIdle == EvalIdle /\ PairIdle
PageIdle == CleanIdle /\ FetchIdle /\ ServiceIdle

ParseInit ==
    /\ content \in ParseTexts
    /\ ret = NoValue
    /\ ppc = "called"
    /\ ScraperIdle
    /\ PipeIdle
    /\ PageIdle

ParseCall ==
    /\ ppc = "called"
    /\ ret' = InputEnhancerParser_parse(content)
    /\ ppc' = "returned"
    /\ UNCHANGED <<content, scraperVars, pipeVars, pageVars>>

ParseNext == ParseCall

ParseSpec == ParseInit /\ [][ParseNext]_vars

(***************************************************************************)
(* utils/google_scraper.py                                                 *)
(***************************************************************************)
\* What the search backend does on one call: it raises, or it answers with a
\* response that may have no "items".
Item_Full == [title |-> "T1", snippet |-> "S1", link |-> "L1", displayLink |-> "D1"]
Item_NoSnippet == [title |-> "T2", link |-> "L2"]

BackendOutcomes ==
    { [kind |-> "raise", has_items |-> FALSE, items |-> <<>>],
      [kind |-> "ok", has_items |-> FALSE, items |-> <<>>],
      [kind |-> "ok", has_items |-> TRUE, items |-> <<Item_Full>>],
      [kind |-> "ok", has_items |-> TRUE, items |-> <<Item_Full, Item_NoSnippet>>] }

\* item.get(key)
item_get(item, key) == IF key \in DOMAIN item THEN item[key] ELSE PyNone

\* google_search on a call the backend answered: res.get("items", []) turned
\* into title / snippet / link records.
google_search(outcome) ==
    LET items == IF outcome.has_items THEN outcome.items ELSE <<>> IN
    [n \in 1..Len(items) |->
        [title |-> item_get(items[n], "title"),
         snippet |-> item_get(items[n], "snippet"),
         link |-> item_get(items[n], "link")]]

\* d[key] = value on a dict held as a function.
dict_put(d, key, value) == (key :> value) @@ d

\* search_step with an except branch that records nothing for the query.
search_step_drops_failed(results, q, outcome) ==
    IF outcome.kind = "raise"
    THEN results
    ELSE dict_put(results, q, google_search(outcome))

\* search_step that does not search a query text it already has an entry for.
search_step_keeps_first(results, q, outcome) ==
    IF q \in DOMAIN results THEN results
    ELSE IF outcome.kind = "raise" THEN dict_put(results, q, <<>>)
    ELSE dict_put(results, q, google_search(outcome))

\* One turn of the for loop of run_cse_scraper: the try / except around the
\* call for query q.
search_step(results, q, outcome) ==
    IF outcome.kind = "raise"
    THEN dict_put(results, q, <<>>)
    ELSE dict_put(results, q, google_search(outcome))

\* The whole for loop, the backend answering call n with outs[n].
RECURSIVE search_loop(_, _, _, _)
search_loop(qs, outs, n, results) ==
    IF n > Len(qs) THEN results
    ELSE search_loop(qs, outs, n + 1, search_step(results, qs[n], outs[n]))

\* The queries of a batch.
QueryStrings == {JStr(<<"a">>), JStr(<<"b">>)}

\* Longest batch of queries.
MaxQueries == 2

QueryLists == UNION {[1..n -> QueryStrings] : n \in 0..MaxQueries}

ScraperInit ==
    /\ queries \in QueryLists
    /\ qi = 1
    /\ all_results = <<>>
    /\ calls = <<>>
    /\ scraped = NoValue
    /\ spc = "loop"
    /\ ParseIdle
    /\ PipeIdle
    /\ PageIdle

\* for q in queries: try: all_results[q] = google_search(...) except: all_results[q] = []
ScraperSearch ==
    /\ spc = "loop"
    /\ qi <= Len(queries)
    /\ \E outcome \in BackendOutcomes :
         /\ all_results' = search_step(all_results, queries[qi], outcome)
         /\ calls' = Append(calls, <<queries[qi], outcome>>)
    /\ qi' = qi + 1
    /\ UNCHANGED <<queries, scraped, spc, parseVars, pipeVars, pageVars>>

\* with open(OUTPUT_PATH, "w") ...: json.dump(all_results, f); return all_results
ScraperSaveAndReturn ==
    /\ spc = "loop"
    /\ qi > Len(queries)
    /\ scraped' = all_results
    /\ spc' = "returned"
    /\ UNCHANGED <<queries, qi, all_results, calls, parseVars, pipeVars, pageVars>>

\* The write of the results file raises: nothing catches it.
ScraperSaveRaises ==
    /\ spc = "loop"
    /\ qi > Len(queries)
    /\ spc' = "raised"
    /\ UNCHANGED <<queries, qi, all_results, calls, scraped, parseVars, pipeVars, pageVars>>

ScraperNext == ScraperSearch \/ ScraperSaveAndReturn \/ ScraperSaveRaises

ScraperSpec == ScraperInit /\ [][ScraperNext]_vars

(***************************************************************************)
(* graphs/graph_builder_2.py, agents/, api/api_main.py: one invocation     *)
(***************************************************************************)
\* ", ".join(parts): parts is a sequence of texts, a text a sequence of pieces.
RECURSIVE join(_, _)
join(sep, parts) ==
    IF parts = <<>> THEN <<>>
    ELSE IF Len(parts) = 1 THEN parts[1]
    ELSE parts[1] \o <<sep>> \o join(sep, Tail(parts))

\* state.get(key, default)
state_get(st, key, default) == IF key \in DOMAIN st THEN st[key] ELSE default

\* What callers send.  Via the API the body is a LeadResearchInput; main takes
\* any dict.
Req_Full ==
    [product_name |-> "X", description |-> "Y", features |-> <<"f1", "f2">>,
     competitors |-> <<>>]
Req_NoName == [description |-> "Y"]
Req_WithMessages ==
    [product_name |-> "X", description |-> "Y", features |-> <<>>,
     competitors |-> <<"k1">>, messages |-> << <<"o", "l", "d">> >>]

Requests == {Req_Full, Req_NoName, Req_WithMessages}

\* LeadResearchInput: the two required fields.
RequiredFields == {"product_name", "description"}

\* input_data.dict(): the six fields of LeadResearchInput, defaults filled in,
\* any other field of the body dropped.
LeadResearchInput_dict(body) ==
    [product_name |-> body.product_name,
     description |-> body.description,
     features |-> state_get(body, "features", <<>>),
     competitors |-> state_get(body, "competitors", <<>>),
     value_prop |-> state_get(body, "value_prop", <<"AI automation for enterprises">>),
     customer_profile |-> state_get(body, "customer_profile",
                            <<"Medium to large enterprises seeking automation">>)]

\* class LeadPipelineState(TypedDict, total=False): the keys declared.
LeadPipelineState ==
    {"product_name", "description", "features", "competitors", "search_queries",
     "business_domains", "messages", "scraped_leads", "ranked_leads"}

\* A graph that keeps every key of the dicts handed to it.
channel_values_keeps_all(d) == d

\* StateGraph(LeadPipelineState): the graph has one channel per declared key.
\* Of the input and of the dict a node returns, only the declared keys are
\* written to the channels; the next node, and the caller of ainvoke, get the
\* channel values.
channel_values(d) == [k \in DOMAIN d \cap LeadPipelineState |-> d[k]]

\* build_graph with the first two nodes wired in the wrong order.
Edges_scraper_first ==
    [__start__ |-> "google_scraper",
     google_scraper |-> "input_enhancer",
     input_enhancer |-> "lead_finder",
     lead_finder |-> "__end__"]

\* build_graph: the edges of the compiled graph.
Edges ==
    [__start__ |-> "input_enhancer",
     input_enhancer |-> "google_scraper",
     google_scraper |-> "lead_finder",
     lead_finder |-> "__end__"]

\* What llm.invoke answers the Enhance prompt with.
EnhanceTexts ==
    {EnhanceJson([n \in 1..Len(qs) |-> qs[n].v], << <<"d">> >>) : qs \in QueryLists \ {<<>>}}
    \cup {EnhanceJson(<<>>, <<>>),
          Line_Dash \o <<NewLine>> \o Line_Star,
          Line_Prose}

\* What llm.invoke answers the ranking prompt with.
KeyHigh == <<"h","i","g","h","_","p","r","i","o","r","i","t","y">>
Rank_Partial == <<"{">> \o Quoted(KeyHigh) \o <<":", " ">> \o ListText(<< <<"L","1">> >>) \o <<"}">>
Rank_EmptyObject == Obj_Empty
Rank_Prose == Line_Prose \o <<" ">> \o Rank_Partial
KeyMedium == <<"m","e","d","i","u","m","_","p","r","i","o","r","i","t","y">>
KeyLow == <<"l","o","w","_","p","r","i","o","r","i","t","y">>
Rank_EmptyLists ==
    <<"{">> \o Quoted(KeyHigh) \o <<":", " ">> \o ListText(<<>>) \o <<",", " ">>
            \o Quoted(KeyLow) \o <<":", " ">> \o ListText(<<>>) \o <<"}">>
Rank_MediumLow ==
    <<"{">> \o Quoted(KeyMedium) \o <<":", " ">> \o ListText(<< <<"L","2">> >>) \o <<",", " ">>
            \o Quoted(KeyLow) \o <<":", " ">> \o ListText(<<>>) \o <<"}">>
Fence == <<"U+0060", "U+0060", "U+0060">>
Rank_Fenced ==
    Fence \o <<"j", "s", "o", "n", NewLine>> \o Rank_Partial \o <<NewLine>> \o Fence

RankTexts ==
    {Rank_Partial, Rank_EmptyObject, Rank_Prose, Rank_EmptyLists, Rank_MediumLow,
     Rank_Fenced}

\* One call of llm.invoke for ranking: it raises, or response.content is a text.
RankAnswers ==
    {[raised |-> TRUE, content |-> <<>>]}
    \cup {[raised |-> FALSE, content |-> text] : text \in RankTexts}

\* The value_prop and customer_profile strings of node_lead_finder.
value_prop_of(st) ==
    <<state_get(st, "product_name", ""), ": ", state_get(st, "description", ""),
      ". Key features include ">>
    \o join(", ", [n \in 1..Len(state_get(st, "features", <<>>)) |->
                      <<state_get(st, "features", <<>>)[n]>>])
    \o <<".">>

customer_profile_of(st) ==
    <<"Ideal customers include businesses in ">>
    \o join(", ", [n \in 1..Len(state_get(st, "business_domains", JArr(<<>>)).v) |->
                      state_get(st, "business_domains", JArr(<<>>)).v[n].v])
    \o <<".">>

\* A node_input_enhancer that returns the enhancer output in place of the state.
merge_returns_update(st, update) == update

\* for k, v in enhanced_output.items(): state[k] = v
merge(st, update) == update @@ st

\* research_companies from the try on: llm.invoke and json.loads under one
\* except that returns {}.
ranked_of(answer) ==
    IF answer.raised THEN [ok |-> FALSE, val |-> JObj(<<>>)]
    ELSE IF json_loads(answer.content).ok THEN json_loads(answer.content)
    ELSE [ok |-> FALSE, val |-> JObj(<<>>)]

\* A node_lead_finder that fills in the priority lists the answer left out.
or_default_priorities(val) ==
    JObj(<< <<KeyHigh, dict_get(val, KeyHigh, JArr(<<>>))>>,
            <<KeyMedium, dict_get(val, KeyMedium, JArr(<<>>))>>,
            <<KeyLow, dict_get(val, KeyLow, JArr(<<>>))>> >>)

\* ranked or {}
or_empty_dict(val) == IF Truthy(val) THEN val ELSE JObj(<<>>)

\* LeadPipelineParser.parse: the row for the evaluation_runs table.
LeadPipelineParser_parse(res) ==
    [product_name |-> state_get(res, "product_name", PyNone),
     description |-> state_get(res, "description", PyNone),
     features |-> state_get(res, "features", <<>>),
     competitors |-> state_get(res, "competitors", <<>>),
     search_queries |-> state_get(res, "search_queries", JArr(<<>>)),
     business_domains |-> state_get(res, "business_domains", JArr(<<>>)),
     scraped_leads |-> state_get(res, "scraped_leads", <<>>),
     ranked_leads |-> state_get(res, "ranked_leads", JObj(<<>>))]

Init ==
    /\ entry \in {"api", "direct"}
    /\ request \in Requests
    /\ pc = "request"
    /\ state = <<>>
    /\ after_enhance = <<>>
    /\ stages = <<>>
    /\ llm_calls = <<>>
    /\ llm_raised = <<>>
    /\ llm_answers = <<>>
    /\ search_log = <<>>
    /\ files = {}
    /\ result = <<>>
    /\ audit = <<>>
    /\ response = NoResponse
    /\ ParseIdle
    /\ ScraperIdle
    /\ PageIdle

\* FastAPI checks the body against LeadResearchInput before run_lead_pipeline
\* runs: a missing required field is answered 422.
api_rejects ==
    /\ pc = "request" /\ entry = "api"
    /\ ~(RequiredFields \subseteq DOMAIN request)
    /\ response' = [status |-> "422", result |-> <<>>]
    /\ pc' = "responded"
    /\ UNCHANGED <<entry, request, state, after_enhance, stages, llm_calls, llm_answers,
                   llm_raised, search_log, files, result, audit, parseVars, scraperVars, pageVars>>

\* run_lead_pipeline calls main(input_data.dict()); main builds the graph and
\* invokes it.
api_calls_main ==
    /\ pc = "request" /\ entry = "api"
    /\ RequiredFields \subseteq DOMAIN request
    /\ state' = channel_values(LeadResearchInput_dict(request))
    /\ stages' = <<"START">>
    /\ pc' = Edges["__start__"]
    /\ UNCHANGED <<entry, request, after_enhance, llm_calls, llm_answers, llm_raised,
                   search_log, files, result, audit, response, parseVars, scraperVars, pageVars>>

\* main(input_data) called by other code: no check of the fields.
direct_calls_main ==
    /\ pc = "request" /\ entry = "direct"
    /\ state' = channel_values(request)
    /\ stages' = <<"START">>
    /\ pc' = Edges["__start__"]
    /\ UNCHANGED <<entry, request, after_enhance, llm_calls, llm_answers, llm_raised,
                   search_log, files, result, audit, response, parseVars, scraperVars, pageVars>>

\* node_input_enhancer, llm.invoke answering with text.
enhancer_merges ==
    /\ pc = "input_enhancer"
    /\ \E text \in EnhanceTexts :
         /\ state' = channel_values(merge(state, InputEnhancerParser_parse(text)))
         /\ after_enhance' = channel_values(merge(state, InputEnhancerParser_parse(text)))
         /\ llm_answers' = Append(llm_answers, [raised |-> FALSE, content |-> text])
    /\ stages' = Append(stages, "ENHANCING")
    /\ llm_calls' = Append(llm_calls, "enhance")
    /\ pc' = Edges["input_enhancer"]
    /\ UNCHANGED <<entry, request, llm_raised, search_log, files, result, audit,
                   response, parseVars, scraperVars, pageVars>>

\* node_input_enhancer, llm.invoke raising: generate_queries_and_domains has no
\* try, the exception leaves the node and the graph.
enhancer_raises ==
    /\ pc = "input_enhancer"
    /\ stages' = Append(stages, "ENHANCING")
    /\ llm_calls' = Append(llm_calls, "enhance")
    /\ llm_raised' = Append(llm_raised, "enhance")
    /\ llm_answers' = Append(llm_answers, [raised |-> TRUE, content |-> <<>>])
    /\ pc' = "raised"
    /\ UNCHANGED <<entry, request, state, after_enhance, search_log, files, result,
                   audit, response, parseVars, scraperVars, pageVars>>

\* node_google_scraper without its guard.
scraper_guard_never_skips(st) == FALSE

\* if not queries: the guard of node_google_scraper.
scraper_guard_skips(st) == ~Truthy(state_get(st, "search_queries", JArr(<<>>)))

\* node_google_scraper: if not queries: return state
scraper_skips ==
    /\ pc = "google_scraper"
    /\ scraper_guard_skips(state)
    /\ pc' = Edges["google_scraper"]
    /\ UNCHANGED <<entry, request, state, after_enhance, stages, llm_calls, llm_answers,
                   llm_raised, search_log, files, result, audit, response,
                   parseVars, scraperVars, pageVars>>

\* node_google_scraper: run_cse_scraper(queries) returns, the result is stored.
scraper_stores ==
    /\ pc = "google_scraper"
    /\ ~scraper_guard_skips(state)
    /\ LET qs == state_get(state, "search_queries", JArr(<<>>)).v IN
       \E outs \in [1..Len(qs) -> BackendOutcomes] :
         /\ state' = channel_values(
                         dict_put(state, "scraped_leads", search_loop(qs, outs, 1, <<>>)))
         /\ search_log' = search_log \o [n \in 1..Len(qs) |-> <<qs[n], outs[n]>>]
    /\ files' = files \cup {"data/google_webscrap_results.json"}
    /\ stages' = Append(stages, "DISCOVERING")
    /\ pc' = Edges["google_scraper"]
    /\ UNCHANGED <<entry, request, after_enhance, llm_calls, llm_answers, llm_raised, result,
                   audit, response, parseVars, scraperVars, pageVars>>

\* node_google_scraper: the write of the results file in run_cse_scraper raises.
scraper_save_raises ==
    /\ pc = "google_scraper"
    /\ ~scraper_guard_skips(state)
    /\ LET qs == state_get(state, "search_queries", JArr(<<>>)).v IN
       \E outs \in [1..Len(qs) -> BackendOutcomes] :
         search_log' = search_log \o [n \in 1..Len(qs) |-> <<qs[n], outs[n]>>]
    /\ stages' = Append(stages, "DISCOVERING")
    /\ pc' = "raised"
    /\ UNCHANGED <<entry, request, state, after_enhance, llm_calls, llm_answers, llm_raised,
                   files, result, audit, response, parseVars, scraperVars, pageVars>>

\* The state of node_lead_finder once value_prop and customer_profile are set.
with_profile(st) ==
    dict_put(dict_put(st, "value_prop", value_prop_of(st)),
             "customer_profile", customer_profile_of(st))

\* A guard of node_lead_finder that skips as soon as one query found nothing.
finder_guard_skips_on_any_empty(st) ==
    LET scraped_data == state_get(st, "scraped_leads", <<>>) IN
    IF scraped_data = <<>> THEN TRUE
    ELSE \E q \in DOMAIN scraped_data : scraped_data[q] = <<>>

\* if not scraped_data: the guard of node_lead_finder.
finder_guard_skips(st) == state_get(st, "scraped_leads", <<>>) = <<>>

\* node_lead_finder: the two strings, then the guard returns the state.
finder_skips ==
    /\ pc = "lead_finder"
    /\ finder_guard_skips(state)
    /\ state' = channel_values(with_profile(state))
    /\ pc' = Edges["lead_finder"]
    /\ UNCHANGED <<entry, request, after_enhance, stages, llm_calls, llm_answers, llm_raised,
                   search_log, files, result, audit, response, parseVars, scraperVars, pageVars>>

\* node_lead_finder: the write of data/google_webscrap_results.json raises; the
\* node returns nothing, the channels keep their values.
finder_dump_raises ==
    /\ pc = "lead_finder"
    /\ ~finder_guard_skips(state)
    /\ state' = state
    /\ pc' = "raised"
    /\ UNCHANGED <<entry, request, after_enhance, stages, llm_calls, llm_answers, llm_raised,
                   search_log, files, result, audit, response, parseVars, scraperVars, pageVars>>

\* node_lead_finder: research_companies catches the failure of llm.invoke or of
\* json.loads and returns {}.
finder_ranks_nothing ==
    /\ pc = "lead_finder"
    /\ ~finder_guard_skips(state)
    /\ \E answer \in RankAnswers :
         /\ ~ranked_of(answer).ok
         /\ llm_raised' = IF answer.raised THEN Append(llm_raised, "rank")
                          ELSE llm_raised
         /\ llm_answers' = Append(llm_answers, answer)
    /\ state' = channel_values(
                    dict_put(with_profile(state), "ranked_leads", or_empty_dict(JObj(<<>>))))
    /\ files' = files \cup {"data/google_webscrap_results.json"}
    /\ stages' = Append(stages, "RANKING")
    /\ llm_calls' = Append(llm_calls, "rank")
    /\ pc' = Edges["lead_finder"]
    /\ UNCHANGED <<entry, request, after_enhance, search_log, result, audit,
                   response, parseVars, scraperVars, pageVars>>

\* node_lead_finder: research_companies parses the answer, writes
\* data/leads_ranked.json and returns the parsed value.
finder_ranks ==
    /\ pc = "lead_finder"
    /\ ~finder_guard_skips(state)
    /\ \E answer \in RankAnswers :
         /\ ranked_of(answer).ok
         /\ state' = channel_values(
                         dict_put(with_profile(state), "ranked_leads",
                                  or_empty_dict(ranked_of(answer).val)))
         /\ llm_answers' = Append(llm_answers, answer)
    /\ files' = files \cup {"data/google_webscrap_results.json", "data/leads_ranked.json"}
    /\ stages' = Append(stages, "RANKING")
    /\ llm_calls' = Append(llm_calls, "rank")
    /\ pc' = Edges["lead_finder"]
    /\ UNCHANGED <<entry, request, after_enhance, llm_raised, search_log, result,
                   audit, response, parseVars, scraperVars, pageVars>>

\* node_lead_finder: the answer parsed, the write of data/leads_ranked.json
\* raises; the node returns nothing, the channels keep their values.
finder_save_raises ==
    /\ pc = "lead_finder"
    /\ ~finder_guard_skips(state)
    /\ \E answer \in RankAnswers :
         /\ ranked_of(answer).ok
         /\ llm_answers' = Append(llm_answers, answer)
    /\ state' = state
    /\ files' = files \cup {"data/google_webscrap_results.json"}
    /\ stages' = Append(stages, "RANKING")
    /\ llm_calls' = Append(llm_calls, "rank")
    /\ pc' = "raised"
    /\ UNCHANGED <<entry, request, after_enhance, llm_raised, search_log, result,
                   audit, response, parseVars, scraperVars, pageVars>>

\* graph.ainvoke returns the final state and main returns it.
main_returns ==
    /\ pc = "__end__"
    /\ result' = state
    /\ stages' = Append(stages, "DONE")
    /\ pc' = "returned"
    /\ UNCHANGED <<entry, request, state, after_enhance, llm_calls, llm_answers, llm_raised,
                   search_log, files, audit, response, parseVars, scraperVars, pageVars>>

\* run_lead_pipeline after main: the row is built and saved, the insert worked.
api_saves_and_responds ==
    /\ pc = "returned" /\ entry = "api"
    /\ audit' = Append(audit, LeadPipelineParser_parse(result))
    /\ response' = [status |-> "success", result |-> result]
    /\ pc' = "responded"
    /\ UNCHANGED <<entry, request, state, after_enhance, stages, llm_calls, llm_answers,
                   llm_raised, search_log, files, result, parseVars, scraperVars, pageVars>>

\* LeadPipelineParser.save without its try/except: the failure of the insert
\* reaches the except branch of run_lead_pipeline.
api_save_fails_and_responds_500 ==
    /\ pc = "returned" /\ entry = "api"
    /\ response' = [status |-> "500", result |-> <<>>]
    /\ pc' = "responded"
    /\ UNCHANGED <<entry, request, state, after_enhance, stages, llm_calls, llm_answers,
                   llm_raised, search_log, files, result, audit, parseVars, scraperVars, pageVars>>

\* run_lead_pipeline after main: the insert raises, LeadPipelineParser.save
\* catches it and returns None.
api_save_fails_and_responds ==
    /\ pc = "returned" /\ entry = "api"
    /\ response' = [status |-> "success", result |-> result]
    /\ pc' = "responded"
    /\ UNCHANGED <<entry, request, state, after_enhance, stages, llm_calls, llm_answers,
                   llm_raised, search_log, files, result, audit, parseVars, scraperVars, pageVars>>

\* run_lead_pipeline: except Exception -> HTTPException(status_code=500)
api_responds_500 ==
    /\ pc = "raised" /\ entry = "api"
    /\ response' = [status |-> "500", result |-> <<>>]
    /\ pc' = "responded"
    /\ UNCHANGED <<entry, request, state, after_enhance, stages, llm_calls, llm_answers,
                   llm_raised, search_log, files, result, audit, parseVars, scraperVars, pageVars>>

Next ==
    \/ api_rejects
    \/ api_calls_main
    \/ direct_calls_main
    \/ enhancer_merges
    \/ enhancer_raises
    \/ scraper_skips
    \/ scraper_stores
    \/ scraper_save_raises
    \/ finder_skips
    \/ finder_dump_raises
    \/ finder_ranks_nothing
    \/ finder_ranks
    \/ finder_save_raises
    \/ main_returns
    \/ api_saves_and_responds
    \/ api_save_fails_and_responds
    \/ api_responds_500

Spec == Init /\ [][Next]_vars

(***************************************************************************)
(* What the claims about the pipeline and the search client speak of       *)
(***************************************************************************)
Range(f) == {f[x] : x \in DOMAIN f}

IsPrefix(s, t) == Len(s) <= Len(t) /\ \A n \in 1..Len(s) : s[n] = t[n]

\* The graph ran to its end: the invocation is at DONE.
AtDone == pc \in {"__end__", "returned"} \/ (pc = "responded" /\ response.status = "success")

\* The Enhance stage has merged its output.
Enhanced == after_enhance # <<>>

\* Nothing was found: no scraped_leads, an empty mapping, or only empty lists.
NoCandidates(st) ==
    \A q \in DOMAIN state_get(st, "scraped_leads", <<>>) : st["scraped_leads"][q] = <<>>

\* The last call made for query q in a log of <<query, outcome>> calls.
LastCall(log, q) == Max({n \in 1..Len(log) : log[n][1] = q})

\* What a query's entry must be, given what the backend did on its call.
EntryFor(outcome) == IF outcome.kind = "raise" THEN <<>> ELSE google_search(outcome)

\* C1: for every invocation with valid product fields, a generation service that
\* raises in Enhance or in Rank is caught in that stage: the invocation does not
\* end in an exception and the HTTP caller never gets an error response.
C1_LlmFailureIsTolerated ==
    (RequiredFields \subseteq DOMAIN request /\ llm_raised # <<>>) =>
        (pc # "raised" /\ response.status \in {"none", "success"})

\* C2: whenever scraped_leads is empty, or every query maps to an empty list, the
\* Rank stage is skipped: llm.invoke is not called for ranking and ranked_leads
\* is absent from the returned state.
C2_RankSkippedWithoutCandidates ==
    (AtDone /\ NoCandidates(state)) =>
        /\ "rank" \notin Range(llm_calls)
        /\ "ranked_leads" \notin DOMAIN state
        /\ "ranked_leads" \notin DOMAIN result

\* C3: when search_queries is empty after the Enhance merge, no later step adds,
\* changes or removes a field: the state stays, and is returned, as the merge
\* left it.
C3_SkipLeavesStateAsEnhanced ==
    (Enhanced /\ ~Truthy(after_enhance["search_queries"])) =>
        /\ state = after_enhance
        /\ (result # <<>> => result = after_enhance)

\* Witness of C3: Enhance left no queries, both later nodes ran and the
\* invocation returned the state of the merge, without the two strings
\* node_lead_finder assigned.
C3_SkippedRunReturned ==
    /\ pc = "returned"
    /\ Enhanced
    /\ ~Truthy(after_enhance["search_queries"])
    /\ stages = <<"START", "ENHANCING", "DONE">>
    /\ result = after_enhance
    /\ "product_name" \in DOMAIN result
    /\ {"value_prop", "customer_profile"} \cap DOMAIN result = {}

FullChain == <<"START", "ENHANCING", "DISCOVERING", "RANKING", "DONE">>
SkipAfterEnhance == <<"START", "ENHANCING", "DONE">>
SkipAfterDiscover == <<"START", "ENHANCING", "DISCOVERING", "DONE">>

\* C4: the stages are entered in the order START, ENHANCING, DISCOVERING,
\* RANKING, DONE, none twice; the only other runs are the two skips to DONE, taken
\* when there are no queries after Enhance, or no candidates after Discover.
C4_StageOrder ==
    /\ \E chain \in {FullChain, SkipAfterEnhance, SkipAfterDiscover} :
          IsPrefix(stages, chain)
    /\ stages = SkipAfterEnhance =>
          ~Truthy(state_get(state, "search_queries", JArr(<<>>)))
    /\ stages = SkipAfterDiscover => state_get(state, "scraped_leads", <<>>) = <<>>

C4_FullChainRun == stages = FullChain /\ pc = "returned"

\* C5: run_cse_scraper searches every query of the batch, whichever calls raise;
\* the returned mapping holds an empty list for a query whose call raised and
\* the backend's results for every other query (for a query text given twice,
\* what its last call gave).
C5_PerQueryIsolation ==
    /\ spc \in {"returned", "raised"} =>
          /\ Len(calls) = Len(queries)
          /\ \A n \in 1..Len(queries) : calls[n][1] = queries[n]
    /\ spc = "returned" =>
          /\ DOMAIN scraped = Range(queries)
          /\ \A q \in Range(queries) : scraped[q] = EntryFor(calls[LastCall(calls, q)][2])

C5_FailureThenResults ==
    /\ spc = "returned"
    /\ Len(queries) = 2 /\ queries[1] # queries[2]
    /\ calls[1][2].kind = "raise"
    /\ calls[2][2].has_items
    /\ scraped[queries[1]] = <<>> /\ scraped[queries[2]] # <<>>

\* C6: once Discover has stored scraped_leads, its keys are exactly the distinct
\* strings of search_queries, and a query given twice has one entry, holding the
\* result of its last occurrence.
C6_ScrapedKeysAreTheQueries ==
    "scraped_leads" \in DOMAIN state =>
        LET qs == state["search_queries"].v IN
        /\ Len(search_log) = Len(qs)
        /\ \A n \in 1..Len(qs) : search_log[n][1] = qs[n]
        /\ DOMAIN state["scraped_leads"] = Range(qs)
        /\ \A q \in Range(qs) :
              state["scraped_leads"][q] = EntryFor(search_log[LastCall(search_log, q)][2])

C6_DuplicateQueryLastWins ==
    /\ "scraped_leads" \in DOMAIN state
    /\ Len(state["search_queries"].v) = 2
    /\ state["search_queries"].v[1] = state["search_queries"].v[2]
    /\ search_log[1][2].has_items
    /\ search_log[2][2].kind = "raise"
    /\ state["scraped_leads"][state["search_queries"].v[1]] = <<>>

\* Scenario A: the Enhance prompt was answered with
\* {"search_queries": [], "business_domains": []}.
ScenarioA == Enhanced /\ after_enhance["messages"] = <<EnhanceJson(<<>>, <<>>)>>

\* C7: in scenario A the state has empty search_queries, the search backend is
\* never called, llm.invoke is not called again, and neither scraped_leads nor
\* ranked_leads is a key of the state that is returned.
C7_ScenarioA ==
    ScenarioA =>
        /\ state["search_queries"] = JArr(<<>>)
        /\ search_log = <<>>
        /\ llm_calls = <<"enhance">>
        /\ pc # "raised"
        /\ {"scraped_leads", "ranked_leads"} \cap DOMAIN state = {}
        /\ result # <<>> =>
              /\ result["search_queries"] = JArr(<<>>)
              /\ {"scraped_leads", "ranked_leads"} \cap DOMAIN result = {}

C7_ScenarioAReturned == ScenarioA /\ pc = "returned" /\ result # <<>>

\* Scenario B: Enhance gave two queries, the backend answered the first with
\* results and raised on the second.
ScenarioB ==
    /\ Enhanced
    /\ Len(after_enhance["search_queries"].v) = 2
    /\ after_enhance["search_queries"].v[1] # after_enhance["search_queries"].v[2]
    /\ Len(search_log) = 2
    /\ search_log[1][2].kind = "ok" /\ google_search(search_log[1][2]) # <<>>
    /\ search_log[2][2].kind = "raise"

\* C8: in scenario B the state after Discover has scraped_leads =
\* {q1: the results of q1, q2: []}, and an invocation that comes to DONE has
\* gone through Rank: llm.invoke was called for ranking and ranked_leads is set.
C8_ScenarioB ==
    ScenarioB =>
        LET q1 == after_enhance["search_queries"].v[1]
            q2 == after_enhance["search_queries"].v[2] IN
        /\ "scraped_leads" \in DOMAIN state =>
              state["scraped_leads"] = (q1 :> google_search(search_log[1][2])) @@ (q2 :> <<>>)
        /\ pc = "lead_finder" => "scraped_leads" \in DOMAIN state
        /\ AtDone =>
              /\ llm_calls = <<"enhance", "rank">>
              /\ "ranked_leads" \in DOMAIN state
              /\ stages \in {FullChain, SubSeq(FullChain, 1, 4)}
        /\ result # <<>> => "ranked_leads" \in DOMAIN result

C8_ScenarioBRanked ==
    ScenarioB /\ pc = "returned" /\ "ranked_leads" \in DOMAIN result

(***************************************************************************)
(* What the claims about parse speak of                                    *)
(***************************************************************************)
\* A well-formed JSON object starts at i: the object and where it ends.
ObjectAt(text, i) ==
    IF text[i] = "{" THEN ParseValue(text, i) ELSE JFail

ObjectStarts(text) == {i \in 1..Len(text) : ObjectAt(text, i).ok}

HasJsonObject(text) == ObjectStarts(text) # {}

FirstJsonObject(text) == ObjectAt(text, Min(ObjectStarts(text))).val

\* The lines that begin with a bullet marker, in order, stripped of surrounding
\* whitespace.
BulletLines(text) ==
    SelectSeq([n \in 1..Len(splitlines(text)) |-> Strip(splitlines(text)[n])],
              LAMBDA l : l # <<>> /\ Head(l) \in BulletMarkers)

\* A bullet line without its leading marker and the whitespace around the rest.
WithoutLeadingMarker(line) == JStr(Strip(Tail(line)))

\* C9: for every raw text that contains a well-formed JSON object, parse returns
\* search_queries and business_domains equal to the fields of the first such
\* object, whatever surrounds it.
C9_StrictExtraction ==
    (ppc = "returned" /\ HasJsonObject(content)) =>
        /\ ret.search_queries = dict_get(FirstJsonObject(content), KeySQ, JArr(<<>>))
        /\ ret.business_domains = dict_get(FirstJsonObject(content), KeyBD, JArr(<<>>))

\* C10: for every raw text with no JSON object and at least one bullet line, parse
\* returns in search_queries one entry per bullet line, in order, each the line
\* without its leading marker and surrounding whitespace, and business_domains
\* is empty.
C10_LenientExtraction ==
    (ppc = "returned" /\ ~HasJsonObject(content) /\ BulletLines(content) # <<>>) =>
        /\ ret.search_queries =
              JArr([n \in 1..Len(BulletLines(content)) |->
                        WithoutLeadingMarker(BulletLines(content)[n])])
        /\ ret.business_domains = JArr(<<>>)

\* The keys of the dict parse returns.
ParseKeys == {"search_queries", "business_domains", "messages"}

\* The strict tier found a block and json.loads rejected it.
MalformedBlock(text) == re_search(text).found /\ ~json_loads(re_search(text).group).ok

\* C11: parse never raises: for every raw text it returns the three-field dict
\* with the raw text in messages; a malformed JSON block counts as a miss of the
\* strict tier (the bullet lines are then taken), and a text with neither a
\* JSON object nor a bullet line gives empty search_queries and business_domains.
C11_ParseNeverRaises ==
    ppc = "returned" =>
        /\ DOMAIN ret = ParseKeys
        /\ ret.messages = <<content>>
        /\ MalformedBlock(content) =>
              /\ ret.search_queries = JArr(bullet_loop(splitlines(content), 1, <<>>))
              /\ ret.business_domains = JArr(<<>>)
        /\ (~HasJsonObject(content) /\ BulletLines(content) = <<>>) =>
              /\ ret.search_queries = JArr(<<>>)
              /\ ret.business_domains = JArr(<<>>)

\* A malformed block in a text with no object and no bullet line was parsed.
C11_MalformedBlockReturnedEmpty ==
    /\ ppc = "returned"
    /\ MalformedBlock(content)
    /\ ~HasJsonObject(content) /\ BulletLines(content) = <<>>
    /\ ret.search_queries = JArr(<<>>)
    /\ ret.messages = <<content>>

(***************************************************************************)
(* Characters and bytes                                                    *)
(***************************************************************************)
\* The printable ASCII characters, from chr(32) to chr(126); chr(96), which a
\* string of this language cannot hold, is written U+0060.
Printable ==
    <<
       " ", "!", "\"", "#", "$", "%", "&", "'", "(", ")", "*", "+",
       ",", "-", ".", "/", "0", "1", "2", "3", "4", "5", "6", "7",
       "8", "9", ":", ";", "<", "=", ">", "?", "@", "A", "B", "C",
       "D", "E", "F", "G", "H", "I", "J", "K", "L", "M", "N", "O",
       "P", "Q", "R", "S", "T", "U", "V", "W", "X", "Y", "Z", "[",
       "\\", "]", "^", "_", "U+0060", "a", "b", "c", "d", "e", "f", "g",
       "h", "i", "j", "k", "l", "m", "n", "o", "p", "q", "r", "s",
       "t", "u", "v", "w", "x", "y", "z", "{", "|", "}", "~"
    >>

HexDigits == <<"0", "1", "2", "3", "4", "5", "6", "7",
               "8", "9", "A", "B", "C", "D", "E", "F">>

Hex(n) == HexDigits[n + 1]

\* A character outside printable ASCII is written U+XXXX (U+XXXXXX past U+FFFF).
CodePoint(n) ==
    LET low == Hex((n \div 4096) % 16) \o Hex((n \div 256) % 16)
               \o Hex((n \div 16) % 16) \o Hex(n % 16) IN
    IF n < 65536 THEN "U+" \o low
    ELSE "U+" \o Hex((n \div 1048576) % 16) \o Hex((n \div 65536) % 16) \o low

\* chr(n)
Chr(n) ==
    IF n >= 32 /\ n <= 126 THEN Printable[n - 31]
    ELSE IF n = 10 THEN NewLine
    ELSE CodePoint(n)

AsciiChars == {Chr(n) : n \in 0..127}

\* ord(c) of an ASCII character
Ord(c) == CHOOSE n \in 0..127 : Chr(n) = c

IsAscii(s) == \A k \in 1..Len(s) : s[k] \in AsciiChars

\* s.startswith(prefix)
startswith(s, prefix) == Len(prefix) <= Len(s) /\ SubSeq(s, 1, Len(prefix)) = prefix

\* The positions of character c in s.
Positions(s, c) == {k \in 1..Len(s) : s[k] = c}

\* The characters of s that are not in cs, in order.
Without(s, cs) == SelectSeq(s, LAMBDA c : c \notin cs)

(***************************************************************************)
(* bytes.decode("utf-8", errors)                                           *)
(***************************************************************************)
Continuation(b) == b >= 128 /\ b <= 191

\* The range the second byte of a sequence must be in, given its first byte.
SecondLow(b) == IF b = 224 THEN 160 ELSE IF b = 240 THEN 144 ELSE 128
SecondHigh(b) == IF b = 237 THEN 159 ELSE IF b = 244 THEN 143 ELSE 191

\* Bytes a sequence that starts with b has in all; 0 for a byte that starts none.
SequenceLength(b) ==
    IF b < 128 THEN 1
    ELSE IF b >= 194 /\ b <= 223 THEN 2
    ELSE IF b >= 224 /\ b <= 239 THEN 3
    ELSE IF b >= 240 /\ b <= 244 THEN 4
    ELSE 0

\* How many bytes from position i on form a valid beginning of a sequence.
ValidPrefix(bytes, i) ==
    LET b == bytes[i]
        n == SequenceLength(b)
        ok(k) == /\ i + k <= Len(bytes)
                 /\ IF k = 1 THEN bytes[i + 1] >= SecondLow(b) /\ bytes[i + 1] <= SecondHigh(b)
                    ELSE Continuation(bytes[i + k])
    IN IF n = 0 THEN 0
       ELSE IF n = 1 THEN 1
       ELSE IF ~ok(1) THEN 1
       ELSE IF n = 2 THEN 2
       ELSE IF ~ok(2) THEN 2
       ELSE IF n = 3 THEN 3
       ELSE IF ~ok(3) THEN 3
       ELSE 4

\* The code point of the complete sequence of n bytes at position i.
Decoded(bytes, i, n) ==
    IF n = 1 THEN bytes[i]
    ELSE IF n = 2 THEN (bytes[i] % 32) * 64 + (bytes[i + 1] % 64)
    ELSE IF n = 3 THEN (bytes[i] % 16) * 4096 + (bytes[i + 1] % 64) * 64
                       + (bytes[i + 2] % 64)
    ELSE (bytes[i] % 8) * 262144 + (bytes[i + 1] % 64) * 4096
         + (bytes[i + 2] % 64) * 64 + (bytes[i + 3] % 64)

\* What a malformed run of bytes becomes under each error handler.
OnError(errors) == IF errors = "replace" THEN <<CodePoint(65533)>> ELSE <<>>

RECURSIVE utf8_from(_, _, _)
utf8_from(bytes, i, errors) ==
    IF i > Len(bytes) THEN <<>>
    ELSE LET n == SequenceLength(bytes[i])
             v == ValidPrefix(bytes, i) IN
         IF n > 0 /\ v = n
         THEN <<Chr(Decoded(bytes, i, n))>> \o utf8_from(bytes, i + n, errors)
         ELSE OnError(errors) \o utf8_from(bytes, i + Max({v, 1}), errors)

utf8_decode(bytes, errors) ==
    IF \A k \in 1..Len(bytes) : bytes[k] < 128
    THEN [k \in 1..Len(bytes) |-> Chr(bytes[k])]
    ELSE utf8_from(bytes, 1, errors)

(***************************************************************************)
(* base64.b64decode(s): binascii.a2b_base64, not strict                    *)
(***************************************************************************)
Base64Alphabet ==
    <<
       "A", "B", "C", "D", "E", "F", "G", "H", "I", "J", "K", "L", "M", "N", "O", "P",
       "Q", "R", "S", "T", "U", "V", "W", "X", "Y", "Z", "a", "b", "c", "d", "e", "f",
       "g", "h", "i", "j", "k", "l", "m", "n", "o", "p", "q", "r", "s", "t", "u", "v",
       "w", "x", "y", "z", "0", "1", "2", "3", "4", "5", "6", "7", "8", "9", "+", "/"
    >>

Base64Chars == {Base64Alphabet[k] : k \in 1..64}

Base64Value(c) == (CHOOSE k \in 1..64 : Base64Alphabet[k] = c) - 1

\* The result of a call that may raise.
Raised == [ok |-> FALSE, val |-> <<>>]
Returned(v) == [ok |-> TRUE, val |-> v]

\* Data characters among the first k characters of s.
DataBefore(s, k) == Cardinality({j \in 1..k : s[j] \in Base64Chars})

\* The "=" read since the last data character, up to position k.
PadsAt(s, k) ==
    LET data == {j \in 1..k : s[j] \in Base64Chars}
        from == IF data = {} THEN 0 ELSE Max(data) IN
    Cardinality({j \in (from + 1)..k : s[j] = "="})

\* The positions where a pad sequence is complete: nothing after is read.
PadStops(s) ==
    {k \in 1..Len(s) :
        /\ s[k] = "="
        /\ DataBefore(s, k) % 4 >= 2
        /\ (DataBefore(s, k) % 4) + PadsAt(s, k) >= 4}

\* The n-th byte of the data characters d.
Base64Byte(d, n) ==
    LET g == 4 * ((n - 1) \div 3)
        r == (n - 1) % 3
        v(k) == Base64Value(d[g + k]) IN
    IF r = 0 THEN v(1) * 4 + (v(2) \div 16)
    ELSE IF r = 1 THEN (v(2) % 16) * 16 + (v(3) \div 4)
    ELSE (v(3) % 4) * 64 + v(4)

\* The member of a one-element set.  {F(v) : v \in {e}} is F(e) with e worked
\* out once, whatever the number of times F reads it.
Only(S) == CHOOSE v \in S : TRUE

\* The bytes of the data characters d; an incomplete last group with no pad
\* sequence raises.
a2b_base64(d, padded) ==
    LET quad_pos == Len(d) % 4
        count == 3 * (Len(d) \div 4) + (IF quad_pos = 0 THEN 0 ELSE quad_pos - 1)
    IN IF ~padded /\ quad_pos # 0 THEN Raised
       ELSE Returned([n \in 1..count |-> Base64Byte(d, n)])

b64decode(s) ==
    IF ~IsAscii(s) THEN Raised
    ELSE Only({ LET read == IF stops = {} THEN s ELSE SubSeq(s, 1, Min(stops)) IN
                Only({ a2b_base64(d, stops # {}) :
                       d \in {SelectSeq(read, LAMBDA c : c \in Base64Chars)} }) :
                stops \in {PadStops(s)} })

(***************************************************************************)
(* urllib.parse: unquote, parse_qs, urlparse                               *)
(***************************************************************************)
\* The n-th smallest member of a set of numbers.
Nth(S, n) == CHOOSE p \in S : Cardinality({q \in S : q < p}) = n - 1

\* s.split(c)
split(s, c) ==
    LET P == Positions(s, c)
        from(n) == IF n = 1 THEN 1 ELSE Nth(P, n - 1) + 1
        to(n) == IF n = Cardinality(P) + 1 THEN Len(s) ELSE Nth(P, n) - 1
    IN [n \in 1..(Cardinality(P) + 1) |-> SubSeq(s, from(n), to(n))]

\* s.split(c, 1)
split_once(s, c) ==
    LET P == Positions(s, c) IN
    IF P = {} THEN <<s>>
    ELSE <<SubSeq(s, 1, Min(P) - 1), SubSeq(s, Min(P) + 1, Len(s))>>

\* s.replace(old, new) for single characters
replace(s, old, new) == [k \in 1..Len(s) |-> IF s[k] = old THEN new ELSE s[k]]

LowerHexDigits == <<"0", "1", "2", "3", "4", "5", "6", "7",
                    "8", "9", "a", "b", "c", "d", "e", "f">>

IsHexDigit(c) == \E k \in 1..16 : c \in {HexDigits[k], LowerHexDigits[k]}

HexValue(c) == (CHOOSE k \in 1..16 : c \in {HexDigits[k], LowerHexDigits[k]}) - 1

\* unquote_to_bytes on an ASCII string: %XX becomes the byte, any other "%"
\* stays.
unquote_to_bytes(s) ==
    LET escape(k) == /\ k >= 1 /\ k + 2 <= Len(s)
                     /\ s[k] = "%" /\ IsHexDigit(s[k + 1]) /\ IsHexDigit(s[k + 2])
        at == SelectSeq([k \in 1..Len(s) |-> k],
                        LAMBDA k : ~escape(k - 1) /\ ~escape(k - 2))
    IN [n \in 1..Len(at) |->
           IF escape(at[n]) THEN 16 * HexValue(s[at[n] + 1]) + HexValue(s[at[n] + 2])
           ELSE Ord(s[at[n]])]

\* The length of the longest prefix of s whose characters are all ASCII
\* (ascii = TRUE) or all not ASCII.
RunLength(s, ascii) ==
    LET other == {k \in 1..Len(s) : (s[k] \in AsciiChars) # ascii} IN
    IF other = {} THEN Len(s) ELSE Min(other) - 1

RECURSIVE unquote_runs(_)
unquote_runs(s) ==
    IF s = <<>> THEN <<>>
    ELSE LET ascii == s[1] \in AsciiChars
             n == RunLength(s, ascii)
             run == SubSeq(s, 1, n) IN
         (IF ascii THEN utf8_decode(unquote_to_bytes(run), "replace") ELSE run)
             \o unquote_runs(SubSeq(s, n + 1, Len(s)))

\* unquote(string)
unquote(s) == IF Positions(s, "%") = {} THEN s ELSE unquote_runs(s)

\* parse_qsl(qs): the <<name, value>> pairs, blank values dropped.
\* The <<name, value>> of the fields that have a "=" and a value.
name_values(query_args) ==
    LET nv == [n \in 1..Len(query_args) |-> split_once(query_args[n], "=")]
        kept == SelectSeq(nv, LAMBDA f : Len(f) = 2 /\ Len(f[2]) > 0)
    IN [k \in 1..Len(kept) |->
           <<unquote(replace(kept[k][1], "+", " ")),
             unquote(replace(kept[k][2], "+", " "))>>]

parse_qsl(qs) ==
    Only({ name_values(query_args) :
           query_args \in {IF qs = <<>> THEN <<>> ELSE split(qs, "&")} })

\* parse_qs(qs).get(name, [None])[0]: None, or the first value of name.
params_get_first(qs, name) ==
    Only({ LET hits == {k \in 1..Len(pairs) : pairs[k][1] = name} IN
           IF hits = {} THEN [none |-> TRUE, val |-> <<>>]
           ELSE [none |-> FALSE, val |-> pairs[Min(hits)][2]] :
           pairs \in {parse_qsl(qs)} })

\* Characters urlsplit strips from the left, and characters it removes.
C0ControlOrSpace == {Chr(n) : n \in 0..32}
UnsafeToRemove == {Chr(9), Chr(13), Chr(10)}

SchemeChars ==
    {Chr(n) : n \in (48..57) \cup (65..90) \cup (97..122)} \cup {"+", "-", "."}

Letters == {Chr(n) : n \in (65..90) \cup (97..122)}

\* str.lstrip(chars)
LStripChars(s, cs) ==
    LET keep == {k \in 1..Len(s) : s[k] \notin cs} IN
    IF keep = {} THEN <<>> ELSE SubSeq(s, Min(keep), Len(s))

\* urlparse(url): whether it raised, and the query.  The netloc of the URLs
\* considered is ASCII and holds no bracketed host.
\* The url without its scheme, when it has one.
after_scheme(url1) ==
    LET colons == Positions(url1, ":")
        i == IF colons = {} THEN 0 ELSE Min(colons)
    IN IF /\ i > 1
          /\ url1[1] \in Letters
          /\ \A k \in 1..(i - 1) : url1[k] \in SchemeChars
       THEN SubSeq(url1, i + 1, Len(url1))
       ELSE url1

\* _splitnetloc(url, 2) when the url starts with "//": the netloc and the rest.
splitnetloc(url2) ==
    LET delims == {k \in 3..Len(url2) : url2[k] \in {"/", "?", "#"}} IN
    IF ~startswith(url2, <<"/", "/">>) THEN [netloc |-> <<>>, rest |-> url2]
    ELSE IF delims = {} THEN [netloc |-> SubSeq(url2, 3, Len(url2)), rest |-> <<>>]
    ELSE [netloc |-> SubSeq(url2, 3, Min(delims) - 1),
          rest |-> SubSeq(url2, Min(delims), Len(url2))]

\* The query of what follows the netloc: after the first "?", before the "#".
query_of(url3) ==
    Only({ IF Len(parts) = 2 THEN parts[2] ELSE <<>> :
           parts \in {split_once(split_once(url3, "#")[1], "?")} })

urlparse(url0) ==
    Only({ Only({ Only({ IF (Positions(nl.netloc, "[") = {}) # (Positions(nl.netloc, "]") = {})
                         THEN [ok |-> FALSE, query |-> <<>>]
                         ELSE [ok |-> TRUE, query |-> query_of(nl.rest)] :
                         nl \in {splitnetloc(url2)} }) :
                  url2 \in {after_scheme(url1)} }) :
           url1 \in {Without(LStripChars(url0, C0ControlOrSpace), UnsafeToRemove)} })

(***************************************************************************)
(* utils/playwright_scrap.py: clean_bing_url                               *)
(***************************************************************************)
Http == <<"h", "t", "t", "p">>

\* The decoded destination when it starts with "http", else the url.
decoded_or(url, bytes) ==
    Only({ IF startswith(decoded, Http) THEN decoded ELSE url :
           decoded \in {utf8_decode(bytes, "ignore")} })

\* The body of the try once the u parameter is read.
decode_or(url, encoded) ==
    IF encoded.none THEN url
    ELSE IF encoded.val = <<>> THEN url
    ELSE Only({ IF ~bytes.ok THEN url ELSE decoded_or(url, bytes.val) :
                bytes \in {b64decode(encoded.val)} })

clean_bing_url(url) ==
    Only({ IF ~parsed.ok THEN url
           ELSE Only({ decode_or(url, encoded) :
                       encoded \in {params_get_first(parsed.query, <<"u">>)} }) :
           parsed \in {urlparse(url)} })

(***************************************************************************)
(* URLs handed to clean_bing_url                                           *)
(***************************************************************************)
\* str.encode() of an ASCII string
ascii_encode(s) == [k \in 1..Len(s) |-> Ord(s[k])]

\* base64.b64encode(bytes).decode()
b64encode(bytes) ==
    LET n == Len(bytes)
        at(k) == IF k <= n THEN bytes[k] ELSE 0
        char(k) ==
            LET g == 3 * ((k - 1) \div 4)
                r == (k - 1) % 4 IN
            IF r = 0 THEN Base64Alphabet[(at(g + 1) \div 4) + 1]
            ELSE IF r = 1
                 THEN Base64Alphabet[(at(g + 1) % 4) * 16 + (at(g + 2) \div 16) + 1]
            ELSE IF r = 2
                 THEN IF g + 2 > n THEN "="
                      ELSE Base64Alphabet[(at(g + 2) % 16) * 4 + (at(g + 3) \div 64) + 1]
            ELSE IF g + 3 > n THEN "=" ELSE Base64Alphabet[(at(g + 3) % 64) + 1]
    IN [k \in 1..(4 * ((n + 2) \div 3)) |-> char(k)]

Base64Of(text) == b64encode(ascii_encode(text))

\* The redirect wrappers.
Wrapper_Search ==
    <<"h", "t", "t", "p", "s", ":", "/", "/", "s", "e", "a", "r", "c", "h",
      ".", "e", "x", "a", "m", "p", "l", "e", "/", "g", "o">>
Wrapper_Short ==
    <<"h", "t", "t", "p", ":", "/", "/", "s", ".", "e", "x", "/">>

\* What a wrapper may carry in its u parameter, before encoding.
Url_Target ==
    <<"h", "t", "t", "p", "s", ":", "/", "/", "t", "a", "r", "g", "e", "t",
      ".", "e", "x", "a", "m", "p", "l", "e">>
Url_Short ==
    <<"h", "t", "t", "p", ":", "/", "/", "t", ".", "e", "x">>
Url_Ftp ==
    <<"f", "t", "p", ":", "/", "/", "t", ".", "e", "x">>
Text_HttpError ==
    <<"h", "t", "t", "p", "-", "e", "r", "r", "o", "r">>
Text_Plain ==
    <<"h", "e", "l", "l", "o">>

\* A wrapper around a destination.
Wrap(wrapper, destination) == wrapper \o <<"?", "u", "=">> \o Base64Of(destination)

Url_Wrapped == Wrap(Wrapper_Short, Url_Short)

Payloads == {Url_Target, Url_Short, Url_Ftp, Text_HttpError, Text_Plain, Url_Wrapped}

\* The parameters of a query string: u with an encoded payload, u with a
\* damaged encoding, u blank or without a value, and other names.
QueryParams ==
    {<<"u", "=">> \o Base64Of(t) : t \in Payloads}
    \cup {<<"u", "=">> \o SubSeq(Base64Of(Url_Short), 1, Len(Base64Of(Url_Short)) - 1),
          <<"u", "=", "a", "1">> \o Base64Of(Url_Target),
          <<"u", "=", "%", "%", "%">>,
          <<"u", "=">>,
          <<"u">>,
          <<"x", "=", "1">>,
          <<"U", "=">> \o Base64Of(Url_Short)}

\* "&".join(params)
RECURSIVE JoinParams(_)
JoinParams(params) ==
    IF params = <<>> THEN <<>>
    ELSE IF Len(params) = 1 THEN params[1]
    ELSE params[1] \o <<"&">> \o JoinParams(Tail(params))

\* Most parameters in one URL.
MaxParams == 2

CleanUrls ==
    {w \o (IF ps = <<>> THEN <<>> ELSE <<"?">> \o JoinParams(ps)) :
        w \in {Wrapper_Search, Wrapper_Short},
        ps \in UNION {[1..n -> QueryParams] : n \in 0..MaxParams}}

(***************************************************************************)
(* clean_bing_url as a function of its own                                 *)
(***************************************************************************)
CleanInit ==
    /\ given_url \in CleanUrls
    /\ clean_once = <<>>
    /\ clean_twice = <<>>
    /\ cpc = "called"
    /\ FetchIdle
    /\ ServiceIdle
    /\ ParseIdle
    /\ ScraperIdle
    /\ PipeIdle

\* clean_bing_url(given_url)
CleanCall ==
    /\ cpc = "called"
    /\ clean_once' = clean_bing_url(given_url)
    /\ cpc' = "cleaned"
    /\ UNCHANGED <<given_url, clean_twice, fetchVars, serviceVars, parseVars, scraperVars, pipeVars>>

\* clean_bing_url applied to the URL it returned
CleanAgain ==
    /\ cpc = "cleaned"
    /\ clean_twice' = clean_bing_url(clean_once)
    /\ cpc' = "recleaned"
    /\ UNCHANGED <<given_url, clean_once, fetchVars, serviceVars, parseVars, scraperVars, pipeVars>>

CleanNext == CleanCall \/ CleanAgain

CleanSpec == CleanInit /\ [][CleanNext]_vars

(***************************************************************************)
(* What the claims about clean_bing_url speak of                           *)
(***************************************************************************)
\* A well-formed absolute URL: a scheme, "://", a host, and no white space.
WellFormedAbsoluteUrl(s) ==
    /\ \E i \in 2..(Len(s) - 3) :
          /\ SubSeq(s, i, i + 2) = <<":", "/", "/">>
          /\ s[1] \in Letters
          /\ \A k \in 1..(i - 1) : s[k] \in SchemeChars
          /\ s[i + 3] \notin {"/", "?", "#"}
    /\ \A k \in 1..Len(s) : s[k] \notin C0ControlOrSpace

\* The value of the u parameter of a URL, if it has one.
UParameter(href) == params_get_first(urlparse(href).query, <<"u">>)

\* The payloads whose base64 encoding is the u parameter of the URL.
EncodedIn(href) ==
    {t \in Payloads : ~UParameter(href).none /\ UParameter(href).val = Base64Of(t)}

\* C12: a URL whose u parameter is the base64 encoding of a well-formed absolute
\* URL canonicalizes to that URL; every other URL (no u, a damaged encoding, an
\* encoding of something that is not a well-formed absolute URL) comes back
\* unchanged.
C12_Canonicalization ==
    cpc \in {"cleaned", "recleaned"} =>
        IF \E t \in EncodedIn(given_url) : WellFormedAbsoluteUrl(t)
        THEN clean_once \in EncodedIn(given_url)
        ELSE clean_once = given_url

\* C13: canonicalization is idempotent: cleaning the URL clean_bing_url returned
\* returns it unchanged.
C13_Idempotent ==
    cpc = "recleaned" => clean_twice = clean_once

(***************************************************************************)
(* utils/playwright_scrap.py: bing_search, scrape_page, run_scraper        *)
(***************************************************************************)
\* sub in s
Contains(s, sub) ==
    \E i \in 1..(Len(s) - Len(sub) + 1) : SubSeq(s, i, i + Len(sub) - 1) = sub

BingCom ==
    <<"b", "i", "n", "g", ".", "c", "o", "m">>

\* The for loop of bing_search over the anchors, from anchor n on.  A href of
\* <<>> is an anchor without href (None) or with an empty one; seen holds what
\* urls holds; get_attribute raises at anchor number broken, if any, and the
\* except branch leaves urls as it is.
RECURSIVE bing_loop(_, _, _, _, _)
bing_loop(hrefs, n, urls, max_links, broken) ==
    IF n > Len(hrefs) \/ n = broken THEN urls
    ELSE Only({ LET added ==
                    IF /\ hrefs[n] # <<>> /\ startswith(hrefs[n], Http)
                       /\ ~Contains(clean, BingCom)
                       /\ \A k \in 1..Len(urls) : urls[k] # clean
                    THEN Append(urls, clean) ELSE urls
                IN IF Len(added) >= max_links THEN added
                   ELSE bing_loop(hrefs, n + 1, added, max_links, broken) :
                clean \in {IF hrefs[n] # <<>> /\ startswith(hrefs[n], Http)
                           THEN clean_bing_url(hrefs[n]) ELSE <<>>} })

\* bing_search(playwright, query, max_links) once the browser is launched: page
\* is what the search page does.
bing_search(page, max_links) ==
    IF page.kind = "goto_raises" THEN <<>>
    ELSE bing_loop(page.hrefs, 1, <<>>, max_links, page.broken)

\* list(dict.fromkeys(urls))
fromkeys_keeps_all(urls) == urls

fromkeys(urls) ==
    LET keep == {k \in 1..Len(urls) : \A j \in 1..(k - 1) : urls[j] # urls[k]}
    IN [n \in 1..Cardinality(keep) |-> urls[Nth(keep, n)]]

\* text[:50000]
TextLimit == 50000

\* scrape_page(page, url): outcome is what the site does.  soup.title.string of
\* an empty <title> is None, and .strip() on it raises.
scrape_page(page_url, outcome) ==
    IF outcome.kind = "goto_raises" \/ outcome.title = "empty_tag" THEN Raised
    ELSE Returned([url |-> page_url,
                   title |-> IF outcome.title = "no_tag" THEN <<>>
                             ELSE Strip(outcome.title_string),
                   raw_text |-> SubSeq(outcome.text, 1, Min({Len(outcome.text), TextLimit}))])

\* The try/except of the fetch loop with the failed page recorded as an empty
\* record.
results_after_keeps_failed(results, page_url, outcome) ==
    IF scrape_page(page_url, outcome).ok
    THEN Append(results, scrape_page(page_url, outcome).val)
    ELSE Append(results, [url |-> page_url, title |-> <<>>, raw_text |-> <<>>])

\* The try/except of the fetch loop: results after one URL.
results_after(results, page_url, outcome) ==
    IF scrape_page(page_url, outcome).ok
    THEN Append(results, scrape_page(page_url, outcome).val)
    ELSE results

\* Hrefs of a search page.
Href_Relative ==
    <<"/", "s", "e", "a", "r", "c", "h", "?", "q", "=", "n", "e", "x", "t">>
Href_Bing ==
    <<"h", "t", "t", "p", "s", ":", "/", "/", "w", "w", "w", ".", "b", "i",
      "n", "g", ".", "c", "o", "m", "/", "m", "a", "p", "s">>

Anchors_Wrapped ==
    <<Wrap(Wrapper_Search, Url_Short), Url_Target, Wrap(Wrapper_Short, Url_Short)>>
Anchors_Direct == <<Url_Target, Href_Bing, Url_Short>>
Anchors_Odd == <<Href_Relative, <<>>, Wrap(Wrapper_Search, Text_Plain)>>

\* What the search page of one query does: the browser does not launch, goto
\* raises, or the page has these anchors.
SearchPages ==
    { [kind |-> "launch_raises", hrefs |-> <<>>, broken |-> 0],
      [kind |-> "goto_raises", hrefs |-> <<>>, broken |-> 0],
      [kind |-> "anchors", hrefs |-> <<>>, broken |-> 0],
      [kind |-> "anchors", hrefs |-> Anchors_Wrapped, broken |-> 0],
      [kind |-> "anchors", hrefs |-> Anchors_Wrapped, broken |-> 2],
      [kind |-> "anchors", hrefs |-> Anchors_Direct, broken |-> 0],
      [kind |-> "anchors", hrefs |-> Anchors_Odd, broken |-> 0] }

\* What a site does when its page is fetched.
PageOutcomes ==
    { [kind |-> "goto_raises", title |-> "no_tag", title_string |-> <<>>, text |-> <<>>],
      [kind |-> "page", title |-> "text", title_string |-> <<" ", "T", " ">>,
       text |-> <<"b", "o", "d", "y">>],
      [kind |-> "page", title |-> "no_tag", title_string |-> <<>>, text |-> <<>>],
      [kind |-> "page", title |-> "empty_tag", title_string |-> <<>>, text |-> <<"x">>] }

Query_Crm == <<"c", "r", "m">>

\* Longest batch of queries, and largest per_query.
MaxBatch == 2
MaxPerQuery == 2

FetchInit ==
    /\ batch \in UNION {[1..n -> {Query_Crm}] : n \in 0..MaxBatch}
    /\ per_query \in 0..MaxPerQuery
    /\ bi = 1
    /\ found_log = <<>>
    /\ all_urls = <<>>
    /\ unique_urls = <<>>
    /\ ui = 1
    /\ fetch_log = <<>>
    /\ page_results = <<>>
    /\ rs_return = <<>>
    /\ rpc = "search"
    /\ CleanIdle
    /\ ServiceIdle
    /\ ParseIdle
    /\ ScraperIdle
    /\ PipeIdle

\* found = await bing_search(p, q, max_links=per_query); all_urls.extend(found)
RsSearch ==
    /\ rpc = "search"
    /\ bi <= Len(batch)
    /\ \E page \in SearchPages :
         /\ page.kind # "launch_raises"
         /\ \E found \in {bing_search(page, per_query)} :
              /\ found_log' = Append(found_log, [page |-> page, found |-> found])
              /\ all_urls' = all_urls \o found
    /\ bi' = bi + 1
    /\ UNCHANGED <<batch, per_query, unique_urls, ui, fetch_log, page_results,
                   rs_return, rpc, cleanVars, serviceVars, parseVars, scraperVars, pipeVars>>

\* bing_search: playwright.chromium.launch raises, outside the try.
RsSearchLaunchRaises ==
    /\ rpc = "search"
    /\ bi <= Len(batch)
    /\ rpc' = "raised"
    /\ UNCHANGED <<batch, per_query, bi, found_log, all_urls, unique_urls, ui,
                   fetch_log, page_results, rs_return, cleanVars, serviceVars, parseVars,
                   scraperVars, pipeVars>>

\* unique_urls = list(dict.fromkeys(all_urls)); return [] when there are none.
RsDedup ==
    /\ rpc = "search"
    /\ bi > Len(batch)
    /\ unique_urls' = fromkeys(all_urls)
    /\ IF unique_urls' = <<>>
       THEN rpc' = "returned" /\ rs_return' = <<>>
       ELSE rpc' = "launch" /\ UNCHANGED rs_return
    /\ UNCHANGED <<batch, per_query, bi, found_log, all_urls, ui, fetch_log,
                   page_results, cleanVars, serviceVars, parseVars, scraperVars, pipeVars>>

\* browser = await p.chromium.launch(...): the browser of the fetch loop.
RsLaunch ==
    /\ rpc = "launch"
    /\ rpc' \in {"fetch", "raised"}
    /\ UNCHANGED <<batch, per_query, bi, found_log, all_urls, unique_urls, ui,
                   fetch_log, page_results, rs_return, cleanVars, serviceVars, parseVars,
                   scraperVars, pipeVars>>

\* One turn of the fetch loop.
RsFetch ==
    /\ rpc = "fetch"
    /\ ui <= Len(unique_urls)
    /\ \E outcome \in PageOutcomes :
         /\ fetch_log' = Append(fetch_log, <<unique_urls[ui], outcome>>)
         /\ page_results' = results_after(page_results, unique_urls[ui], outcome)
    /\ ui' = ui + 1
    /\ UNCHANGED <<batch, per_query, bi, found_log, all_urls, unique_urls,
                   rs_return, rpc, cleanVars, serviceVars, parseVars, scraperVars, pipeVars>>

\* browser.close(), OUT_FILE.write_text(...), return results
RsSaveAndReturn ==
    /\ rpc = "fetch"
    /\ ui > Len(unique_urls)
    /\ rs_return' = page_results
    /\ rpc' = "returned"
    /\ UNCHANGED <<batch, per_query, bi, found_log, all_urls, unique_urls, ui,
                   fetch_log, page_results, cleanVars, serviceVars, parseVars, scraperVars,
                   pipeVars>>

\* browser.close() or OUT_FILE.write_text(...) raises.
RsSaveRaises ==
    /\ rpc = "fetch"
    /\ ui > Len(unique_urls)
    /\ rpc' = "raised"
    /\ UNCHANGED <<batch, per_query, bi, found_log, all_urls, unique_urls, ui,
                   fetch_log, page_results, rs_return, cleanVars, serviceVars, parseVars,
                   scraperVars, pipeVars>>

FetchNext ==
    \/ RsSearch
    \/ RsSearchLaunchRaises
    \/ RsDedup
    \/ RsLaunch
    \/ RsFetch
    \/ RsSaveAndReturn
    \/ RsSaveRaises

FetchSpec == FetchInit /\ [][FetchNext]_vars

(***************************************************************************)
(* What the claims about run_scraper speak of                              *)
(***************************************************************************)
\* The URLs scrape_page was called for, in order.
FetchedUrls == [n \in 1..Len(fetch_log) |-> fetch_log[n][1]]

\* The URLs bing_search found, query after query.
DiscoveredUrls == Concat([n \in 1..Len(found_log) |-> found_log[n].found])

\* Where x is first in seq.
FirstAt(seq, x) == Min({k \in 1..Len(seq) : seq[k] = x})

\* The fetch loop is over.
FetchLoopDone == rpc = "returned" \/ (rpc = "fetch" /\ ui > Len(unique_urls))

\* C14: whatever the queries find (the same destination through different
\* wrappers, or by different queries), every canonical URL found is fetched once
\* and only once, and the fetches follow the order of first discovery.  The
\* URLs found are the canonical forms, clean_bing_url(href), of anchors of the
\* search pages.
C14_OneFetchPerCanonicalUrl ==
    /\ \A m, n \in 1..Len(FetchedUrls) : m < n => FetchedUrls[m] # FetchedUrls[n]
    /\ \A n \in 1..Len(FetchedUrls) : FetchedUrls[n] \in Range(DiscoveredUrls)
    /\ \A m, n \in 1..Len(FetchedUrls) :
          m < n => FirstAt(DiscoveredUrls, FetchedUrls[m]) < FirstAt(DiscoveredUrls, FetchedUrls[n])
    /\ FetchLoopDone => Range(FetchedUrls) = Range(DiscoveredUrls)
    /\ \A n \in 1..Len(found_log) : \A u \in Range(found_log[n].found) :
          \E h \in Range(found_log[n].page.hrefs) : h # <<>> /\ clean_bing_url(h) = u

\* Two queries found the same two destinations, one of them through two
\* different wrappers, and both were fetched, once each.
C14_SameDestinationFetchedOnce ==
    /\ rpc = "returned"
    /\ Len(found_log) = 2
    /\ found_log[1].found = <<Url_Short, Url_Target>>
    /\ found_log[1].page.hrefs = Anchors_Wrapped
    /\ found_log[2].found = <<Url_Target, Url_Short>>
    /\ FetchedUrls = <<Url_Short, Url_Target>>

\* The fetch of a page gave a record.
Succeeded(outcome) == outcome.kind = "page" /\ outcome.title # "empty_tag"

\* The URLs of the fetches that succeeded, in fetch order.
SucceededUrls ==
    LET ok == SelectSeq(fetch_log, LAMBDA f : Succeeded(f[2])) IN
    [n \in 1..Len(ok) |-> ok[n][1]]

\* C15: a fetch that raises is left out of the results and does not stop the
\* loop: every unique URL is fetched, in order, and the results hold one record
\* for each URL whose fetch succeeded, in fetch order, and none for the others.
C15_PerPageIsolation ==
    /\ rpc = "fetch" => FetchedUrls = SubSeq(unique_urls, 1, ui - 1)
    /\ [n \in 1..Len(page_results) |-> page_results[n].url] = SucceededUrls
    /\ (rpc = "returned" /\ unique_urls # <<>>) =>
          /\ FetchedUrls = unique_urls
          /\ [n \in 1..Len(rs_return) |-> rs_return[n].url] = SucceededUrls

\* A fetch failed, the next one succeeded, and run_scraper returned.
C15_FailureThenRecord ==
    /\ rpc = "returned"
    /\ Len(fetch_log) >= 2
    /\ ~Succeeded(fetch_log[1][2])
    /\ Succeeded(fetch_log[2][2])
    /\ rs_return # <<>>
    /\ rs_return[1].url = fetch_log[2][1]

(***************************************************************************)
(* What the claims about persistence and entry speak of                    *)
(***************************************************************************)
\* main returned to run_lead_pipeline and the caller has its answer.
AnsweredAfterMain == entry = "api" /\ pc = "responded" /\ result # <<>>

\* C16: once the pipeline completed, the caller of run_lead_pipeline gets the
\* success response with the result of main, whether the insert into the audit
\* store worked (one row) or failed (no row).
C16_AuditIsBestEffort ==
    AnsweredAfterMain =>
        /\ response = [status |-> "success", result |-> result]
        /\ audit \in {<<>>, <<LeadPipelineParser_parse(result)>>}

\* The insert failed and the caller got the success response.
C16_InsertFailedStillSuccess ==
    /\ AnsweredAfterMain
    /\ audit = <<>>
    /\ response.status = "success"
    /\ "ranked_leads" \in DOMAIN response.result

\* The invocation ended in an exception, or the HTTP caller got an error.
FailureSurfaced == pc = "raised" \/ response.status \in {"422", "500"}

\* C17: a failing write of a stage's file (the discovery results, the scraped
\* data written before ranking, the ranked leads) does not fail the invocation:
\* no invocation ends in an exception other than one llm.invoke raised in
\* Enhance, and once a stage has run its output is in the state.
C17_FileWritesAreBestEffort ==
    /\ (pc = "raised" \/ response.status = "500") => "enhance" \in Range(llm_raised)
    /\ "DISCOVERING" \in Range(stages) => "scraped_leads" \in DOMAIN state
    /\ "RANKING" \in Range(stages) => "ranked_leads" \in DOMAIN state

\* C18: with product_name or description missing, the invocation fails before
\* ENHANCING, llm.invoke is never called and the caller is told, whichever way
\* the orchestrator is entered; and no invocation fails for any other reason.
C18_EntryValidation ==
    /\ ~(RequiredFields \subseteq DOMAIN request) =>
          /\ llm_calls = <<>>
          /\ "ENHANCING" \notin Range(stages)
          /\ pc # "request" => FailureSurfaced
    /\ FailureSurfaced => ~(RequiredFields \subseteq DOMAIN request)

\* The state the invocation was created with.
Created == IF entry = "api" THEN LeadResearchInput_dict(request) ELSE request

CallerFields == {"product_name", "description", "features", "competitors"}

\* st has the caller's fields as they were created, and search_queries as the
\* Enhance stage wrote it.
KeepsFields(st) ==
    /\ \A f \in CallerFields :
          /\ (f \in DOMAIN st) = (f \in DOMAIN Created)
          /\ f \in DOMAIN st => st[f] = Created[f]
    /\ Enhanced =>
          /\ "search_queries" \in DOMAIN st
          /\ st["search_queries"] = after_enhance["search_queries"]

\* C19: throughout an invocation the caller's product_name, description,
\* features and competitors keep the values they were created with and
\* search_queries keeps the value Enhance wrote, in the state and in the result.
C19_FieldsAreKept ==
    /\ state # <<>> => KeepsFields(state)
    /\ result # <<>> => KeepsFields(result)

\* Discover and Rank have written their fields and the result is returned.
C19_AllStagesWrote ==
    /\ pc = "returned"
    /\ {"scraped_leads", "ranked_leads"} \subseteq DOMAIN result
    /\ Truthy(result["search_queries"])
    /\ result["features"] = <<"f1", "f2">>

\* The messages of a state.
Messages(st) == state_get(st, "messages", <<>>)

\* C20: messages is append-only: at every step the messages before the step are
\* a prefix of the messages after it.
C20_MessagesAppendOnly ==
    [][IsPrefix(Messages(state), Messages(state'))]_vars

(***************************************************************************)
(* What the claims about the ranking stage speak of                        *)
(***************************************************************************)
\* node_lead_finder has come back from research_companies.
RankReturned ==
    /\ pc \in {"__end__", "returned", "responded"}
    /\ llm_calls # <<>>
    /\ llm_calls[Len(llm_calls)] = "rank"

\* What llm.invoke answered the ranking prompt with.
RankAnswer == llm_answers[Len(llm_answers)]

\* C22: in the RANKING stage, whenever the content of the generation output
\* contains a well-formed JSON object, also with prose or a code fence around
\* it, ranked_leads is set to that object and not to an empty record.
C22_RankingUsesTieredExtraction ==
    (RankReturned /\ ~RankAnswer.raised /\ HasJsonObject(RankAnswer.content)) =>
        state_get(state, "ranked_leads", NoValue) = FirstJsonObject(RankAnswer.content)

\* The priority keys of a ranking record.
PriorityKeys == {KeyHigh, KeyMedium, KeyLow}

\* The records that populate only some of the priority lists, each with the
\* text that encodes it.
PartialRecords ==
    {[text |-> Rank_Partial,
      record |-> JObj(<< <<KeyHigh, JArr(<< JStr(<<"L","1">>) >>)>> >>)],
     [text |-> Rank_EmptyLists,
      record |-> JObj(<< <<KeyHigh, JArr(<<>>)>>, <<KeyLow, JArr(<<>>)>> >>)],
     [text |-> Rank_MediumLow,
      record |-> JObj(<< <<KeyMedium, JArr(<< JStr(<<"L","2">>) >>)>>,
                         <<KeyLow, JArr(<<>>)>> >>)],
     [text |-> Rank_EmptyObject, record |-> JObj(<<>>)]}

\* C23: when the generation output of the Rank stage is a JSON record that
\* populates only some of high_priority, medium_priority and low_priority, or
\* populates them with empty lists, ranked_leads of the returned state is that
\* record exactly: no key added, dropped or defaulted.
C23_PartialRankingPreserved ==
    \A partial \in PartialRecords :
        (/\ pc = "returned"
         /\ RankReturned
         /\ ~RankAnswer.raised
         /\ RankAnswer.content = partial.text) =>
            /\ "ranked_leads" \in DOMAIN result
            /\ result["ranked_leads"] = partial.record

\* Witness of C23: an invocation returned after the ranking answered with a
\* record that has one or two of the three lists.
C23_PartialRecordReturned ==
    /\ pc = "returned"
    /\ RankReturned
    /\ ~RankAnswer.raised
    /\ RankAnswer.content \in {Rank_Partial, Rank_MediumLow, Rank_EmptyLists}
    /\ result["ranked_leads"] # JObj(<<>>)
    /\ {result["ranked_leads"].v[n][1] : n \in 1..Len(result["ranked_leads"].v)}
          \subseteq PriorityKeys
    /\ Len(result["ranked_leads"].v) < Cardinality(PriorityKeys)

(***************************************************************************)
(* What the claim about missing keys speaks of                             *)
(***************************************************************************)
\* The keys of a parsed object.
KeysOf(obj) == {obj.v[n][1] : n \in 1..Len(obj.v)}

\* The JSON block of the text parses to an object without one of the two
\* expected keys.
BlockLacksKey(text) ==
    /\ re_search(text).found
    /\ json_loads(re_search(text).group).ok
    /\ ~({KeySQ, KeyBD} \subseteq KeysOf(json_loads(re_search(text).group).val))

\* C24: when the JSON block of the Enhance output parses but lacks an expected
\* key, parse returns the empty sequence for the missing key and the object's
\* value for the key that is present, and does not fall back to the bullet
\* heuristic.
C24_MissingKeyDefaultsToEmpty ==
    (ppc = "returned" /\ BlockLacksKey(content)) =>
        LET block == json_loads(re_search(content).group).val IN
        /\ ret.search_queries = dict_get(block, KeySQ, JArr(<<>>))
        /\ ret.business_domains = dict_get(block, KeyBD, JArr(<<>>))

(***************************************************************************)
(* api/api_main.py: update_category and update_evaluation                  *)
(***************************************************************************)
\* raise HTTPException(status_code=..., detail=...)
HTTPException(status_code, detail) ==
    [type |-> "HTTPException", status_code |-> status_code, detail |-> detail]

\* What execute() raises when the store fails.
StoreError == [type |-> "APIError", status_code |-> 0, detail |-> "store failed"]

\* str(e), the detail of the HTTPException of the except branch.
str_of(e) == [str_of |-> e]

\* supabase.table(...).update(changes).eq("id", trace_id).execute() on a store
\* that works: the table afterwards, and result.data, the rows changed.
execute_update(table, changes, trace_id) ==
    IF trace_id \in DOMAIN table
    THEN [rows |-> dict_put(table, trace_id, changes @@ table[trace_id]),
          data |-> << changes @@ table[trace_id] >>]
    ELSE [rows |-> table, data |-> <<>>]

\* The body of the try of both endpoints.
update_try(table, changes, trace_id, outcome, message) ==
    IF outcome = "raise"
    THEN [raised |-> TRUE, exc |-> StoreError, value |-> <<>>, rows |-> table]
    ELSE Only({ IF updated.data = <<>>
                THEN [raised |-> TRUE,
                      exc |-> HTTPException(404, "Evaluation row not found"),
                      value |-> <<>>, rows |-> updated.rows]
                ELSE [raised |-> FALSE, exc |-> <<>>,
                      value |-> [message |-> message], rows |-> updated.rows] :
                updated \in {execute_update(table, changes, trace_id)} })

\* except Exception as e: raise HTTPException(status_code=500, detail=str(e))
except_Exception(done) ==
    IF done.raised
    THEN [done EXCEPT !.exc = HTTPException(500, str_of(done.exc))]
    ELSE done

\* The first three characters of both messages, as the source file has them.
MessageMark == <<"U+00E2", "U+0153", "U+2026">>

update_category(table, body, outcome) ==
    except_Exception(
        update_try(table, [category |-> body.category], body.trace_id, outcome,
                   MessageMark \o <<" Category updated successfully.">>))

update_evaluation(table, body, outcome) ==
    except_Exception(
        update_try(table,
                   [evaluation_status |-> body.evaluation_status,
                    evaluation_comment |-> body.evaluation_comment],
                   body.trace_id, outcome,
                   MessageMark \o <<" Evaluation updated successfully.">>))

\* What the HTTP caller gets: FastAPI turns a raised HTTPException into an
\* answer with its status code and detail, a returned dict into a 200.
answer_of(done) ==
    IF done.raised
    THEN [status_code |-> done.exc.status_code, body |-> [detail |-> done.exc.detail]]
    ELSE [status_code |-> 200, body |-> done.value]

\* The rows a table may hold and the ids a request may name.
StoredIds == {"t1", "t2"}
TraceIds == StoredIds \cup {"t9"}
NewRow(id) ==
    [id |-> id, category |-> "new", evaluation_status |-> "pending",
     evaluation_comment |-> PyNone]
Tables == {[id \in ids |-> NewRow(id)] : ids \in SUBSET StoredIds}

CategoryUpdates == [trace_id : TraceIds, category : {"new", "hot"}]
EvaluationUpdates ==
    [trace_id : TraceIds, evaluation_status : {"good", "bad"},
     evaluation_comment : {PyNone, "c"}]

\* Most requests served in one run.
MaxRequests == 2

EvalInit ==
    /\ rows \in Tables
    /\ rows_before = <<>>
    /\ payload = <<>>
    /\ store = "none"
    /\ reply = NoReply
    /\ served = 0
    /\ PairIdle
    /\ CleanIdle
    /\ FetchIdle
    /\ ParseIdle
    /\ ScraperIdle
    /\ PipeIdle

\* POST /evaluation/update-category
UpdateCategory ==
    /\ served < MaxRequests
    /\ \E body \in CategoryUpdates, outcome \in {"ok", "raise"} :
       \E done \in {update_category(rows, body, outcome)} :
         /\ rows' = done.rows
         /\ payload' = [endpoint |-> "update-category", body |-> body]
         /\ store' = outcome
         /\ reply' = answer_of(done)
    /\ rows_before' = rows
    /\ served' = served + 1
    /\ UNCHANGED <<pairVars, cleanVars, fetchVars, parseVars, scraperVars, pipeVars>>

\* POST /evaluation/update-evaluation
UpdateEvaluation ==
    /\ served < MaxRequests
    /\ \E body \in EvaluationUpdates, outcome \in {"ok", "raise"} :
       \E done \in {update_evaluation(rows, body, outcome)} :
         /\ rows' = done.rows
         /\ payload' = [endpoint |-> "update-evaluation", body |-> body]
         /\ store' = outcome
         /\ reply' = answer_of(done)
    /\ rows_before' = rows
    /\ served' = served + 1
    /\ UNCHANGED <<pairVars, cleanVars, fetchVars, parseVars, scraperVars, pipeVars>>

EvalNext == UpdateCategory \/ UpdateEvaluation

EvalSpec == EvalInit /\ [][EvalNext]_vars

(***************************************************************************)
(* What the claim about the update endpoints speaks of                     *)
(***************************************************************************)
\* C25: in update_category and update_evaluation, an update whose trace_id
\* matches no stored row is answered with the 404 error "Evaluation row not
\* found", and a store failure is answered with a 500 error.
C25_UnknownRowIs404 ==
    served > 0 =>
        /\ (store = "ok" /\ payload.body.trace_id \notin DOMAIN rows_before) =>
              /\ reply.status_code = 404
              /\ reply.body = [detail |-> "Evaluation row not found"]
        /\ store = "raise" => reply.status_code = 500

(***************************************************************************)
(* What the claim about bing_search speaks of                              *)
(***************************************************************************)
\* The anchors of a search page that were read before the page broke.
AnchorsRead(page) ==
    IF page.broken = 0 THEN page.hrefs ELSE SubSeq(page.hrefs, 1, page.broken - 1)

\* The cleaned URL of each anchor, <<>> for an anchor that has no http href.
CleanedAnchors(page) ==
    [n \in 1..Len(AnchorsRead(page)) |->
        IF AnchorsRead(page)[n] # <<>> /\ startswith(AnchorsRead(page)[n], Http)
        THEN clean_bing_url(AnchorsRead(page)[n]) ELSE <<>>]

\* found lists elements of cleaned in the order of their first appearance.
InPageOrder(found, cleaned) ==
    /\ \A k \in 1..Len(found) : \E n \in 1..Len(cleaned) : cleaned[n] = found[k]
    /\ \A j, k \in 1..Len(found) :
          j < k => FirstAt(cleaned, found[j]) < FirstAt(cleaned, found[k])

\* C26: for every query, every list of anchors and every max_links >= 0,
\* bing_search returns at most max_links URLs, none repeated, none containing
\* "bing.com", in page order of first appearance; when the search page fails
\* to load it returns the URLs collected so far instead of raising.
C26_BingSearchResult ==
    \A n \in 1..Len(found_log) :
      \A call \in {found_log[n]} :
        /\ Len(call.found) <= per_query
        /\ \A j, k \in 1..Len(call.found) : j # k => call.found[j] # call.found[k]
        /\ \A k \in 1..Len(call.found) : ~Contains(call.found[k], BingCom)
        /\ \A cleaned \in {CleanedAnchors(call.page)} :
              InPageOrder(call.found, cleaned)
        /\ call.page.kind = "goto_raises" => call.found = <<>>

(***************************************************************************)
(* graphs/graph_builder_2.py: two invocations of main in one process       *)
(*                                                                         *)
(* The three nodes are coroutines that never await anything that yields    *)
(* (llm.invoke, run_cse_scraper and the file writes are blocking calls, and *)
(* research_companies has no await of its own), so the event loop switches *)
(* between two invocations only between nodes: a node is one step.         *)
(***************************************************************************)
Invocations == {1, 2}

\* config={"configurable": {"thread_id": "session-1"}}
ThreadId == "session-1"

\* A build_graph that hands every graph one MemorySaver kept at module level.
saver_shared(i) == "module"

\* build_graph: memory = MemorySaver(), a new object on every call of main.
saver_of(i) == <<"MemorySaver", i>>

\* What a MemorySaver holds under a thread id before anything was saved.
NoCheckpoint == [writer |-> 0, values |-> <<>>]

\* graph.ainvoke(input_data, config): the channel values start from the
\* checkpoint the graph's checkpointer holds under the thread id, and the input
\* is written over them.
ainvoke_start(checkpoint, input_data) ==
    channel_values(input_data) @@ checkpoint.values

\* node_input_enhancer on the answer of llm.invoke.
node_input_enhancer(st, answer) ==
    IF answer.raised THEN [raised |-> TRUE, state |-> st]
    ELSE [raised |-> FALSE, state |-> merge(st, InputEnhancerParser_parse(answer.content))]

\* The results of run_cse_scraper on the queries of the state, the backend
\* answering each query as the mapping backend says.
scraped_for(st, backend) ==
    Only({ search_loop(qs, [n \in 1..Len(qs) |-> backend[qs[n]]], 1, <<>>) :
           qs \in {state_get(st, "search_queries", JArr(<<>>)).v} })

\* node_google_scraper
node_google_scraper(st, backend) ==
    IF scraper_guard_skips(st) THEN st
    ELSE dict_put(st, "scraped_leads", scraped_for(st, backend))

\* node_lead_finder on the answer of llm.invoke.
node_lead_finder(st, answer) ==
    IF finder_guard_skips(st) THEN with_profile(st)
    ELSE Only({ dict_put(with_profile(st), "ranked_leads",
                         or_empty_dict(IF ranked.ok THEN ranked.val ELSE JObj(<<>>))) :
                ranked \in {ranked_of(answer)} })

\* The external responses of one invocation: what llm.invoke does on the
\* Enhance prompt and on the ranking prompt, and what the search backend does
\* for each query.
Found == [kind |-> "ok", has_items |-> TRUE, items |-> <<Item_Full>>]
Failing == [kind |-> "raise", has_items |-> FALSE, items |-> <<>>]
Said(text) == [raised |-> FALSE, content |-> text]
LlmDown == [raised |-> TRUE, content |-> <<>>]

Scripts ==
    { [enhance |-> Said(EnhanceJson(<< <<"a">>, <<"b">> >>, << <<"d">> >>)),
       backend |-> [q \in QueryStrings |-> Found],
       rank |-> Said(Rank_Partial)],
      [enhance |-> Said(EnhanceJson(<< <<"a">> >>, << <<"d">> >>)),
       backend |-> [q \in QueryStrings |-> Failing],
       rank |-> Said(Rank_Prose)],
      [enhance |-> Said(EnhanceJson(<<>>, <<>>)),
       backend |-> [q \in QueryStrings |-> Found],
       rank |-> Said(Rank_Partial)],
      [enhance |-> Said(Line_Dash \o <<NewLine>> \o Line_Star),
       backend |-> [q \in QueryStrings |->
                      IF q = JStr(<<"a">>) THEN Found ELSE Failing],
       rank |-> Said(Rank_MediumLow)],
      [enhance |-> Said(EnhanceJson(<< <<"b">> >>, << <<"d">> >>)),
       backend |-> [q \in QueryStrings |-> Found],
       rank |-> LlmDown],
      [enhance |-> LlmDown,
       backend |-> [q \in QueryStrings |-> Found],
       rank |-> Said(Rank_Partial)] }

PairInit ==
    /\ inv \in [Invocations ->
                  {[input |-> input, script |-> script, pc |-> "called",
                    state |-> <<>>, result |-> <<>>] :
                   input \in Requests, script \in Scripts}]
    /\ savers = <<>>
    /\ disk = <<>>
    /\ reads = {}
    /\ EvalIdle
    /\ CleanIdle
    /\ FetchIdle
    /\ ParseIdle
    /\ ScraperIdle
    /\ PipeIdle

\* The checkpoint of invocation i's graph under the thread id.
checkpoint_of(i) ==
    IF saver_of(i) \in DOMAIN savers THEN savers[saver_of(i)] ELSE NoCheckpoint

\* The checkpointer of invocation i's graph saves the channel values.
saved(i, values) == dict_put(savers, saver_of(i), [writer |-> i, values |-> values])

\* main: build_graph(), then graph.ainvoke loads the checkpoint and writes the
\* input.
MainStarts(i) ==
    /\ inv[i].pc = "called"
    /\ \E st \in {ainvoke_start(checkpoint_of(i), inv[i].input)} :
         /\ inv' = [inv EXCEPT ![i] = [@ EXCEPT !.pc = Edges["__start__"], !.state = st]]
         /\ savers' = saved(i, st)
    /\ reads' = reads \cup {<<i, "checkpoint", checkpoint_of(i).writer>>}
    /\ UNCHANGED <<disk, evalVars, cleanVars, fetchVars, parseVars, scraperVars, pipeVars>>

\* The step of the graph that runs node_input_enhancer and writes what it
\* returned to the channels.
NodeInputEnhancer(i) ==
    /\ inv[i].pc = "input_enhancer"
    /\ \E done \in {node_input_enhancer(inv[i].state, inv[i].script.enhance)} :
         IF done.raised
         THEN /\ inv' = [inv EXCEPT ![i] = [@ EXCEPT !.pc = "raised"]]
              /\ UNCHANGED savers
         ELSE \E st \in {channel_values(done.state)} :
              /\ inv' = [inv EXCEPT ![i] = [@ EXCEPT !.pc = Edges["input_enhancer"],
                                                      !.state = st]]
              /\ savers' = saved(i, st)
    /\ UNCHANGED <<disk, reads, evalVars, cleanVars, fetchVars, parseVars,
                   scraperVars, pipeVars>>

\* The step that runs node_google_scraper; run_cse_scraper writes its file.
NodeGoogleScraper(i) ==
    /\ inv[i].pc = "google_scraper"
    /\ \E st \in {channel_values(
                       node_google_scraper(inv[i].state, inv[i].script.backend))} :
         /\ inv' = [inv EXCEPT ![i] = [@ EXCEPT !.pc = Edges["google_scraper"],
                                                 !.state = st]]
         /\ savers' = saved(i, st)
         /\ disk' = IF scraper_guard_skips(inv[i].state) THEN disk
                    ELSE dict_put(disk, "data/google_webscrap_results.json",
                                  [writer |-> i, content |-> st["scraped_leads"]])
    /\ UNCHANGED <<reads, evalVars, cleanVars, fetchVars, parseVars, scraperVars,
                   pipeVars>>

\* The files node_lead_finder and research_companies write.
finder_files(i, st, answer) ==
    IF finder_guard_skips(st) THEN disk
    ELSE Only({ IF ranked.ok
                THEN dict_put(dumped, "data/leads_ranked.json",
                              [writer |-> i, content |-> ranked.val])
                ELSE dumped :
                ranked \in {ranked_of(answer)},
                dumped \in {dict_put(disk, "data/google_webscrap_results.json",
                                     [writer |-> i,
                                      content |-> state_get(st, "scraped_leads", <<>>)])} })

\* The step that runs node_lead_finder.
NodeLeadFinder(i) ==
    /\ inv[i].pc = "lead_finder"
    /\ \E st \in {channel_values(node_lead_finder(inv[i].state, inv[i].script.rank))} :
         /\ inv' = [inv EXCEPT ![i] = [@ EXCEPT !.pc = Edges["lead_finder"],
                                                 !.state = st]]
         /\ savers' = saved(i, st)
    /\ disk' = finder_files(i, inv[i].state, inv[i].script.rank)
    /\ UNCHANGED <<reads, evalVars, cleanVars, fetchVars, parseVars, scraperVars,
                   pipeVars>>

\* graph.ainvoke returns the channel values and main returns them.
MainReturns(i) ==
    /\ inv[i].pc = "__end__"
    /\ inv' = [inv EXCEPT ![i] = [@ EXCEPT !.pc = "returned", !.result = inv[i].state]]
    /\ UNCHANGED <<savers, disk, reads, evalVars, cleanVars, fetchVars, parseVars,
                   scraperVars, pipeVars>>

PairNext ==
    \E i \in Invocations :
        \/ MainStarts(i)
        \/ NodeInputEnhancer(i)
        \/ NodeGoogleScraper(i)
        \/ NodeLeadFinder(i)
        \/ MainReturns(i)

PairSpec == PairInit /\ [][PairNext]_vars

(***************************************************************************)
(* What the claim about interleaved invocations speaks of                  *)
(***************************************************************************)
\* main run alone on an input with given external responses: the nodes one
\* after the other on a graph whose checkpointer holds nothing.
Alone(input, script) ==
    Only({ IF enhanced.raised THEN [raised |-> TRUE, state |-> <<>>]
           ELSE [raised |-> FALSE,
                 state |-> channel_values(node_lead_finder(
                               channel_values(node_google_scraper(
                                   channel_values(enhanced.state), script.backend)),
                               script.rank))] :
           enhanced \in {node_input_enhancer(ainvoke_start(NoCheckpoint, input),
                                             script.enhance)} })

\* C21: when two invocations run interleaved in one process, the state each
\* returns is the state it returns when run alone with the same input and the
\* same external responses, and nothing one invocation wrote (state, checkpoint
\* under the fixed thread id, diagnostic files) is read by the other.
C21_NoCrossInvocationSharing ==
    /\ \A i \in DOMAIN inv :
         \A alone \in {Alone(inv[i].input, inv[i].script)} :
           /\ inv[i].pc = "returned" =>
                 ~alone.raised /\ inv[i].result = alone.state
           /\ inv[i].pc = "raised" => alone.raised
    /\ \A read \in reads : read[3] \in {0, read[1]}

\* Witness of C21: invocation 1 has returned a ranking while invocation 2, with
\* another input and other responses, is between its search and its ranking,
\* and the results file it wrote has since been overwritten by invocation 1.
C21_ReturnedWhileOtherInFlight ==
    /\ inv # <<>>
    /\ inv[1].pc = "returned"
    /\ "ranked_leads" \in DOMAIN inv[1].result
    /\ inv[2].pc = "lead_finder"
    /\ "scraped_leads" \in DOMAIN inv[2].state
    /\ inv[1].input # inv[2].input
    /\ inv[1].script # inv[2].script
    /\ disk["data/google_webscrap_results.json"].writer = 1
    /\ savers[saver_of(2)].writer = 2
====
